---- MODULE Spec2Model ----
(***************************************************************************)
(* Model of the session / registry / activation subsystem of mcp-express:  *)
(* McpServerService (src/core/mcp-server-service.ts) and SessionManager    *)
(* (src/core/session-manager.ts).                                          *)
(*                                                                         *)
(* JavaScript runs one task at a time; a task gives up control only at an  *)
(* `await`.  Every action below is one synchronous segment of a method:    *)
(* from its entry (or from the resumption of an await) to its next await   *)
(* or its return.  The two awaits of McpServerService are                  *)
(*   - `await server.connect(transport)` in getOrCreateServer, and         *)
(*   - `await serverConfig.server.close()` in closeServer.                 *)
(***************************************************************************)
EXTENDS Integers, Sequences, FiniteSets, TLC

\* ---------------------------------------------------------------- bounds
MaxInst == 2        \* server instances ever constructed in one behaviour
StackLimit == 2     \* nesting depth of closeServer <-> onclose before the call stack is exhausted
MaxNames == 2       \* length of the toolNames list passed to enableDynamicToolsForSession
ShutCap == 2        \* the count of server.close() calls on one instance stops here
NotifCap == 2       \* the count of activation notifications of one session id stops here
MaxWire == 2        \* send calls of one session whose events the receiving side records
MaxReq == 1         \* handleRequest calls in flight at one time

\* ---------------------------------------------------------------- universes
Sessions == {"s1", "s2"}
RegNames == {"userInfo", "searchDocuments", "listPrompts",
             "summarizeDocument", "countWordsAndCharacters", "detectDocumentFormat"}
\* names a caller passes to enableDynamicToolsForSession; "unknownTool" is never registered
ToolUniverse == {"userInfo", "summarizeDocument", "countWordsAndCharacters", "unknownTool"}
\* no module registers a resource under a plain uri; one name stands for such a resource
StringResNames == {"health"}
TemplateResNames == {"document", "document-list", "documents-by-tag"}
PromptNames == {"document-summary", "api-usage-example"}
Channels == {"res1"}

NoInst == 0
NoHandler == "none"                           \* no handler: the name is not registered
Handlers == {"h1", "h2"}                      \* the callables passed to registerTool
AllToolNames == RegNames \cup ToolUniverse
\* closeAllServers is not running; while it waits: the session ids it found tracked and
\* the closeServer calls it waits for
NotWaiting == [active |-> FALSE, tracked |-> {}, kids |-> {}]
NoState == [has |-> FALSE, enabled |-> {}]    \* sessionToolState has no entry for the key
NoRes == "nores"                              \* session.res is undefined
Undefined == "undefined"                      \* an optional field or argument that is not set
\* sessions has no entry for the key; lastUpdate = "none": the record has no lastUpdate
NoSession == [has |-> FALSE, res |-> NoRes, lastUpdate |-> "none", createdAt |-> "none",
              userId |-> Undefined, username |-> Undefined, userRole |-> Undefined]
\* SessionOptions with no field set, and the call that passes no options
NoOptions == [userId |-> Undefined, username |-> Undefined, userRole |-> Undefined]
NoWrite == [events |-> <<>>, ended |-> FALSE]
\* the receiving side of the channels: whether it records, per session the send calls
\* issued so far and the events it has observed, each with the number of its call
NoHeader == "noheader"                        \* the request has no mcp-session-id header
\* no response has been produced; sent: the response is out; envelope: it is a JSON-RPC
\* error response with the code and the HTTP status
NoResponse == [sent |-> FALSE, envelope |-> FALSE, status |-> 0, code |-> 0]
NoWire == [on |-> FALSE, calls |-> [s \in Sessions |-> 0], log |-> [s \in Sessions |-> <<>>],
           to |-> [s \in Sessions |-> <<>>]]
InstIds == 1..MaxInst

VARIABLES
  registeredTools,              \* Map<name, ToolRegistration>: "absent" | "static" | "dynamic"
  registeredHandlers,           \* the handler of each ToolRegistration; NoHandler: no entry
  registeredStringResources,    \* names of the string resources registered
  registeredTemplateResources,  \* names of the template resources registered
  registeredPrompts,            \* names of the prompts registered
  servers,                      \* Map<sessionId, ServerConfig>: the instance id, or NoInst
  sessionToolState,             \* Map<sessionId, SessionToolState>: has = the key is present
  inst,                         \* the McpServer/transport pairs ever constructed
  closing,                      \* closeServer calls suspended at `await server.close()`: session id,
                                \* the instance being shut down, and whether server.close() rejected
  allWait,                      \* closeAllServers suspended at `await Promise.all`
  sessions,                     \* SessionManager.sessions
  sessionsWithDynamicTools,     \* SessionManager.sessionsWithDynamicTools
  written,                      \* what the latest SessionManager operation wrote to a response:
                                \* the events (res.write) and whether it ended it (res.end)
  notified,                     \* per session id, the activation notifications written so far
  wire,                         \* what the receiving side of the channels has observed
  requests,                     \* handleRequest calls suspended at an await
  response,                     \* the HTTP response of the handleRequest call that returned last
  last                          \* the operation that ran last, its arguments and its result

vars == <<registeredTools, registeredHandlers, registeredStringResources, registeredTemplateResources,
          registeredPrompts, servers, sessionToolState, inst, closing, allWait,
          sessions, sessionsWithDynamicTools, written, notified, wire,
          requests, response, last>>

regVars == <<registeredTools, registeredHandlers, registeredStringResources, registeredTemplateResources,
             registeredPrompts>>
reqVars == <<requests, response>>
smVars == <<sessions, sessionsWithDynamicTools, written, notified, wire, reqVars>>

\* ---------------------------------------------------------------- helpers
Unused == [sid |-> "none", st |-> "unused", tsid |-> FALSE, tools |-> {},
           handlers |-> [n \in AllToolNames |-> NoHandler],
           resources |-> {}, prompts |-> {}, nreg |-> 0, shutdowns |-> 0]

Op(op, sid, ret, names, i) ==
  [op |-> op, sid |-> sid, ret |-> ret, names |-> names, inst |-> i]

\* the next instance to be constructed (`new McpServer`), or NoInst when the bound is reached
FreshInst ==
  IF \E i \in InstIds : inst[i].st = "unused"
  THEN CHOOSE i \in InstIds : inst[i].st = "unused" /\ \A j \in InstIds : j < i => inst[j].st # "unused"
  ELSE NoInst

StaticTools == {n \in RegNames : registeredTools[n] = "static"}
DynamicTools == {n \in RegNames : registeredTools[n] = "dynamic"}

\* registerAllModules, called once by bootstrap() before the routes are set up
BootTools ==
  [n \in RegNames |-> IF n \in {"summarizeDocument", "countWordsAndCharacters", "detectDocumentFormat"}
                       THEN "dynamic" ELSE "static"]

\* ---------------------------------------------------------------- Init
Init ==
  /\ registeredTools = BootTools
  /\ registeredHandlers = [n \in RegNames |-> "h1"]
  /\ registeredStringResources = {}
  /\ registeredTemplateResources = TemplateResNames
  /\ registeredPrompts = PromptNames
  /\ servers = [s \in Sessions |-> NoInst]
  /\ sessionToolState = [s \in Sessions |-> NoState]
  /\ inst = [i \in InstIds |-> Unused]
  /\ closing = {}
  /\ allWait = NotWaiting
  /\ sessions = [s \in Sessions |-> NoSession]
  /\ sessionsWithDynamicTools = {}
  /\ written = NoWrite
  /\ notified = [s \in Sessions |-> 0]
  /\ wire = NoWire
  /\ requests = {}
  /\ response = NoResponse
  /\ last = Op("init", "none", "none", <<>>, NoInst)

\* ---------------------------------------------------------------- registry
\* registerTool that keeps the entry a name already has.
RegisterToolKeepFirst(name, handler, isDynamic) ==
  /\ registeredTools' = IF registeredTools[name] # "absent" THEN registeredTools
                        ELSE [registeredTools EXCEPT ![name] = IF isDynamic THEN "dynamic" ELSE "static"]
  /\ registeredHandlers' = IF registeredTools[name] # "absent" THEN registeredHandlers
                           ELSE [registeredHandlers EXCEPT ![name] = handler]
  /\ last' = Op("registerTool", "none", "none", <<name, handler, IF isDynamic THEN "dynamic" ELSE "static">>, NoInst)
  /\ UNCHANGED <<registeredStringResources, registeredTemplateResources, registeredPrompts,
                 servers, sessionToolState, inst, closing, allWait, smVars>>

\* registerTool(name, paramSchema, handler, isDynamic); registerDynamicTool is the call
\* with isDynamic = true.  last.names holds the name, the handler and the flag.
RegisterTool(name, handler, isDynamic) ==
  /\ registeredTools' = [registeredTools EXCEPT ![name] = IF isDynamic THEN "dynamic" ELSE "static"]
  /\ registeredHandlers' = [registeredHandlers EXCEPT ![name] = handler]
  /\ last' = Op("registerTool", "none", "none", <<name, handler, IF isDynamic THEN "dynamic" ELSE "static">>, NoInst)
  /\ UNCHANGED <<registeredStringResources, registeredTemplateResources, registeredPrompts,
                 servers, sessionToolState, inst, closing, allWait, smVars>>

RegisterResource(name, isTemplate) ==
  /\ IF isTemplate
     THEN /\ name \in TemplateResNames
          /\ registeredTemplateResources' = registeredTemplateResources \cup {name}
          /\ UNCHANGED registeredStringResources
     ELSE /\ name \in StringResNames
          /\ registeredStringResources' = registeredStringResources \cup {name}
          /\ UNCHANGED registeredTemplateResources
  /\ last' = Op("registerResource", "none", "none", <<name>>, NoInst)
  /\ UNCHANGED <<registeredTools, registeredHandlers, registeredPrompts,
                 servers, sessionToolState, inst, closing, allWait, smVars>>

RegisterPrompt(name) ==
  /\ registeredPrompts' = registeredPrompts \cup {name}
  /\ last' = Op("registerPrompt", "none", "none", <<name>>, NoInst)
  /\ UNCHANGED <<registeredTools, registeredHandlers, registeredStringResources, registeredTemplateResources,
                 servers, sessionToolState, inst, closing, allWait, smVars>>


\* ---------------------------------------------------------------- instances
\* server.tool(registration.name, registration.paramSchema, registration.handler) on one
\* McpServer, for the registration the registry holds under the name
ServerTool(server, name) ==
  [server EXCEPT !.tools = @ \cup {name}, !.nreg = @ + 1,
                 !.handlers[name] = IF name \in RegNames THEN registeredHandlers[name] ELSE NoHandler]

\* server.resource(name, uriOrTemplate, handler)
ServerResource(server, kind, name) ==
  [server EXCEPT !.resources = @ \cup {<<kind, name>>}, !.nreg = @ + 1]

\* server.prompt(name, paramSchema, handler)
ServerPrompt(server, name) ==
  [server EXCEPT !.prompts = @ \cup {name}, !.nreg = @ + 1]

\* One pass of a `for (... of map.values())` loop: f applied to every element of S.
RECURSIVE ApplyEach(_, _, _)
ApplyEach(server, S, kind) ==
  IF S = {} THEN server
  ELSE LET n == CHOOSE x \in S : TRUE
           next == CASE kind = "tool" -> IF registeredTools[n] # "dynamic"
                                         THEN ServerTool(server, n) ELSE server
                     [] kind = "prompt" -> ServerPrompt(server, n)
                     [] OTHER -> ServerResource(server, kind, n)
       IN ApplyEach(next, S \ {n}, kind)

ApplyRegistrationsToServer(server) ==
  LET registered == {n \in RegNames : registeredTools[n] # "absent"}
      a == ApplyEach(server, registered, "tool")
      b == ApplyEach(a, registeredStringResources, "string")
      c == ApplyEach(b, registeredTemplateResources, "template")
  IN ApplyEach(c, registeredPrompts, "prompt")

\* ---------------------------------------------------------------- getOrCreateServer
\* getOrCreateServer without its existence check: a new instance on every call.
GetOrCreateServerNoCheck(s) ==
  /\ FreshInst # NoInst
  /\ LET i == FreshInst
         server == [Unused EXCEPT !.sid = s, !.st = "connecting"]
     IN /\ inst' = [inst EXCEPT ![i] = ApplyRegistrationsToServer(server)]
        /\ last' = Op("getOrCreateServer", s, "await", <<>>, i)
  /\ UNCHANGED <<regVars, servers, sessionToolState, closing, allWait, smVars>>

\* Entry to `await server.connect(transport)`, or the early return of the tracked instance.
GetOrCreateServer(s) ==
  IF servers[s] # NoInst
  THEN /\ last' = Op("getOrCreateServer", s, "existing", <<>>, servers[s])
       /\ UNCHANGED <<regVars, servers, sessionToolState, inst, closing, allWait, smVars>>
  ELSE /\ FreshInst # NoInst
       /\ LET i == FreshInst
              server == [Unused EXCEPT !.sid = s, !.st = "connecting"]
          IN /\ inst' = [inst EXCEPT ![i] = ApplyRegistrationsToServer(server)]
             /\ last' = Op("getOrCreateServer", s, "await", <<>>, i)
       /\ UNCHANGED <<regVars, servers, sessionToolState, closing, allWait, smVars>>

\* Resumption after `await server.connect(transport)`: servers.set and return.
GetOrCreateServerResume(i) ==
  /\ inst[i].st = "connecting"
  /\ servers' = [servers EXCEPT ![inst[i].sid] = i]
  /\ inst' = [inst EXCEPT ![i].st = "open"]
  /\ last' = Op("getOrCreateServerReturn", inst[i].sid, "created", <<>>, i)
  /\ UNCHANGED <<regVars, sessionToolState, closing, allWait, smVars>>

\* The transport handles an initialize request and takes its session id from
\* sessionIdGenerator: from then on transport.sessionId is set.
TransportInitialize(i) ==
  /\ inst[i].st = "open"
  /\ ~inst[i].tsid
  /\ inst' = [inst EXCEPT ![i].tsid = TRUE]
  /\ last' = Op("initialize", inst[i].sid, "none", <<>>, i)
  /\ UNCHANGED <<regVars, servers, sessionToolState, closing, allWait, smVars>>

\* ---------------------------------------------------------------- enableDynamicToolsForSession
\* The loop body without the "already enabled" test.
EnableOneNoHas(acc, toolName) ==
  IF toolName \notin RegNames \/ registeredTools[toolName] = "absent" THEN acc
  ELSE IF registeredTools[toolName] # "dynamic" THEN acc
  ELSE [enabled |-> acc.enabled \cup {toolName},
        server |-> ServerTool(acc.server, toolName),
        toolsAdded |-> TRUE]

\* The loop body that forgets to set toolsAdded.
EnableOneNoFlag(acc, toolName) ==
  IF toolName \notin RegNames \/ registeredTools[toolName] = "absent" THEN acc
  ELSE IF registeredTools[toolName] # "dynamic" THEN acc
  ELSE IF toolName \in acc.enabled THEN acc
  ELSE [enabled |-> acc.enabled \cup {toolName},
        server |-> ServerTool(acc.server, toolName),
        toolsAdded |-> acc.toolsAdded]

\* The loop body without the tests of the registration: every name is enabled.
EnableOneUnknown(acc, toolName) ==
  IF toolName \in acc.enabled THEN acc
  ELSE [enabled |-> acc.enabled \cup {toolName},
        server |-> ServerTool(acc.server, toolName),
        toolsAdded |-> TRUE]

\* One iteration of the loop over toolNames.
EnableOne(acc, toolName) ==
  IF toolName \notin RegNames \/ registeredTools[toolName] = "absent" THEN acc
  ELSE IF registeredTools[toolName] # "dynamic" THEN acc
  ELSE IF toolName \in acc.enabled THEN acc
  ELSE [enabled |-> acc.enabled \cup {toolName},
        server |-> ServerTool(acc.server, toolName),
        toolsAdded |-> TRUE]

\* The loop with `break` in place of `continue` on a name that cannot be enabled.
RECURSIVE EnableLoopBreak(_, _, _)
EnableLoopBreak(acc, toolNames, k) ==
  IF k > Len(toolNames) THEN acc
  ELSE IF toolNames[k] \notin RegNames \/ registeredTools[toolNames[k]] # "dynamic" THEN acc
  ELSE EnableLoopBreak(EnableOne(acc, toolNames[k]), toolNames, k + 1)

RECURSIVE EnableLoop(_, _, _)
EnableLoop(acc, toolNames, k) ==
  IF k > Len(toolNames) THEN acc
  ELSE EnableLoop(EnableOne(acc, toolNames[k]), toolNames, k + 1)

EnableResult(s, toolNames) ==
  EnableLoop([enabled |-> IF ~sessionToolState[s].has THEN {} ELSE sessionToolState[s].enabled,
              server |-> inst[servers[s]],
              toolsAdded |-> FALSE], toolNames, 1)

EnableDynamicToolsForSession(s, toolNames) ==
  IF servers[s] = NoInst
  THEN /\ last' = Op("enable", s, "false", toolNames, NoInst)
       /\ UNCHANGED <<regVars, servers, sessionToolState, inst, closing, allWait, smVars>>
  ELSE LET r == EnableResult(s, toolNames)
       IN /\ sessionToolState' = [sessionToolState EXCEPT ![s] = [has |-> TRUE, enabled |-> r.enabled]]
          /\ inst' = [inst EXCEPT ![servers[s]] = r.server]
          /\ last' = Op("enable", s, IF r.toolsAdded THEN "true" ELSE "false", toolNames, servers[s])
          /\ UNCHANGED <<regVars, servers, closing, allWait, smVars>>

NameLists == UNION {[1..n -> ToolUniverse] : n \in 0..MaxNames}
ShortLists == {<<"summarizeDocument", "unknownTool">>}

\* ---------------------------------------------------------------- closeServer / onclose
\* The tables a synchronous call chain reads and writes, threaded through the chain.
Tables == [servers |-> servers, sts |-> sessionToolState, inst |-> inst, closing |-> closing]

\* one more server.close() that reached the transport, counted up to ShutCap
Count(n) == IF n < ShutCap THEN n + 1 ELSE n

RECURSIVE CloseServerSync(_, _, _), ServerClose(_, _, _), OnClose(_, _, _)

\* closeServer from its entry to `await serverConfig.server.close()`: the call of
\* server.close() runs synchronously, the catch/finally blocks wait in `closing`.
CloseServerSync(M, s, depth) ==
  IF M.servers[s] = NoInst THEN M
  ELSE LET i == M.servers[s]
           M1 == [M EXCEPT !.closing = @ \cup {[sid |-> s, inst |-> i, threw |-> FALSE]}]
       IN ServerClose(M1, i, depth)

\* McpServer.close(): closes the transport when the server still holds one; the
\* transport then calls its onclose handler, and the server lets go of the transport.
\* Past StackLimit nested calls the call stack is exhausted and the handler's call fails.
ServerClose(M, i, depth) ==
  IF M.inst[i].st # "open" THEN M
  ELSE LET M1 == [M EXCEPT !.inst[i].shutdowns = Count(@)]
           M2 == IF depth < StackLimit THEN OnClose(M1, i, depth + 1) ELSE M1
       IN [M2 EXCEPT !.inst[i].st = "closed"]

\* The handler that forgets the enabled set: it removes the servers entry only.
OnCloseKeepState(M, i, depth) ==
  LET s == M.inst[i].sid
      M1 == IF M.inst[i].tsid
            THEN [M EXCEPT !.servers[s] = NoInst]
            ELSE M
  IN CloseServerSync(M1, s, depth)

\* transport.onclose as installed by getOrCreateServer (sessionId is the closure's).
OnClose(M, i, depth) ==
  LET s == M.inst[i].sid
      M1 == IF M.inst[i].tsid
            THEN [M EXCEPT !.servers[s] = NoInst, !.sts[s] = NoState]
            ELSE M
  IN CloseServerSync(M1, s, depth)

SetTables(M) ==
  /\ servers' = M.servers
  /\ sessionToolState' = M.sts
  /\ inst' = M.inst
  /\ closing' = M.closing

\* Every closeServer call suspended in M resumes: each runs its finally block.
FinishCloses(M) ==
  [M EXCEPT !.servers = [s \in Sessions |-> IF \E c \in M.closing : c.sid = s THEN NoInst ELSE @[s]],
            !.sts = [s \in Sessions |-> IF \E c \in M.closing : c.sid = s THEN NoState ELSE @[s]],
            !.closing = {}]

\* closeServer with the finally block outside `if (serverConfig)`.
CloseServerNoGuard(s, throws) ==
  /\ throws => /\ servers[s] # NoInst
               /\ inst[servers[s]].st = "open"
  /\ last' = Op("closeServer", s, IF servers[s] = NoInst THEN "untracked" ELSE "await", <<>>, servers[s])
  /\ IF throws
     THEN SetTables([Tables EXCEPT !.closing = @ \cup {[sid |-> s, inst |-> servers[s], threw |-> TRUE]},
                                   !.inst[servers[s]].shutdowns = Count(@)])
     ELSE SetTables([CloseServerSync(Tables, s, 1) EXCEPT
                       !.closing = @ \cup {[sid |-> s, inst |-> servers[s], threw |-> FALSE]}])
  /\ UNCHANGED <<regVars, allWait, smVars>>

\* closeServer(s).  throws: server.close() rejects without closing the transport.
CloseServer(s, throws) ==
  /\ throws => /\ servers[s] # NoInst
               /\ inst[servers[s]].st = "open"
  /\ IF servers[s] = NoInst
     THEN /\ last' = Op("closeServer", s, "untracked", <<>>, NoInst)
          /\ UNCHANGED <<servers, sessionToolState, inst, closing>>
     ELSE /\ last' = Op("closeServer", s, "await", <<>>, servers[s])
          /\ IF throws
             THEN SetTables([Tables EXCEPT !.closing = @ \cup {[sid |-> s, inst |-> servers[s], threw |-> TRUE]},
                                           !.inst[servers[s]].shutdowns = Count(@)])
             ELSE SetTables(CloseServerSync(Tables, s, 1))
  /\ UNCHANGED <<regVars, allWait, smVars>>

\* The resumption with the cleanup at the end of the try block instead of in finally.
CloseServerResumeNoFinally(c) ==
  /\ c \in closing
  /\ servers' = IF c.threw THEN servers ELSE [servers EXCEPT ![c.sid] = NoInst]
  /\ sessionToolState' = IF c.threw THEN sessionToolState
                         ELSE [sessionToolState EXCEPT ![c.sid] = NoState]
  /\ closing' = closing \ {c}
  /\ allWait' = [allWait EXCEPT !.kids = @ \ {c}]
  /\ last' = Op("closeServerReturn", c.sid, IF c.threw THEN "caught" ELSE "void", <<>>, c.inst)
  /\ UNCHANGED <<regVars, inst, smVars>>

\* Resumption after `await server.close()`: catch (log only) and finally.
CloseServerResume(c) ==
  /\ c \in closing
  /\ servers' = [servers EXCEPT ![c.sid] = NoInst]
  /\ sessionToolState' = [sessionToolState EXCEPT ![c.sid] = NoState]
  /\ closing' = closing \ {c}
  /\ allWait' = [allWait EXCEPT !.kids = @ \ {c}]
  /\ last' = Op("closeServerReturn", c.sid, IF c.threw THEN "caught" ELSE "void", <<>>, c.inst)
  /\ UNCHANGED <<regVars, inst, smVars>>

\* The connection of an open transport ends (client disconnect, DELETE handled by the
\* transport, ...): onclose runs, then the server lets go of the transport.
TransportClose(i) ==
  /\ inst[i].st = "open"
  /\ SetTables([OnClose(Tables, i, 1) EXCEPT !.inst[i].st = "closed"])
  /\ last' = Op("transportClose", inst[i].sid, "none", <<>>, i)
  /\ UNCHANGED <<regVars, allWait, smVars>>

\* ---------------------------------------------------------------- closeAllServers
\* closeServer(s) up to its await, for a call whose server.close() rejects (throws) or not
CloseOne(M, s, throws) ==
  IF throws
  THEN [M EXCEPT !.closing = @ \cup {[sid |-> s, inst |-> M.servers[s], threw |-> TRUE]},
                 !.inst[M.servers[s]].shutdowns = Count(@)]
  ELSE CloseServerSync(M, s, 1)

\* The loop that calls closeServer for the first key only.
CloseEachFirst(M, S, throwing) ==
  IF S = {} THEN M
  ELSE LET s == CHOOSE x \in S : TRUE
       IN CloseOne(M, s, s \in throwing)

\* for (const sessionId of this.servers.keys()) closingPromises.push(this.closeServer(sessionId))
RECURSIVE CloseEach(_, _, _)
CloseEach(M, S, throwing) ==
  IF S = {} THEN M
  ELSE LET s == CHOOSE x \in S : TRUE
       IN CloseEach(CloseOne(M, s, s \in throwing), S \ {s}, throwing)

\* the elements of a set of session ids, in a fixed order
RECURSIVE SeqOf(_)
SeqOf(S) ==
  IF S = {} THEN <<>>
  ELSE LET s == CHOOSE x \in S : x = "s1" \/ "s1" \notin S
       IN <<s>> \o SeqOf(S \ {s})

\* closeAllServers up to `await Promise.all(closingPromises)`.  throwing: the sessions
\* whose server.close() rejects.
CloseAllServers(throwing) ==
  /\ ~allWait.active
  /\ throwing \subseteq {s \in Sessions : servers[s] # NoInst}
  /\ \A s \in throwing : inst[servers[s]].st = "open"
  /\ LET S == {s \in Sessions : servers[s] # NoInst}
         M == CloseEach(Tables, S, throwing)
     IN /\ SetTables(M)
        /\ allWait' = [active |-> TRUE, tracked |-> S, kids |-> {c \in M.closing : c.sid \in S}]
        /\ last' = Op("closeAllServers", "none", "await", SeqOf(S), NoInst)
  /\ UNCHANGED <<regVars, smVars>>

\* Promise.all has resolved: closeAllServers returns.  last.names holds the session
\* ids the call had found tracked.
CloseAllServersReturn ==
  /\ allWait.active
  /\ allWait.kids = {}
  /\ allWait' = NotWaiting
  /\ last' = Op("closeAllServersReturn", "none", "void", SeqOf(allWait.tracked), NoInst)
  /\ UNCHANGED <<regVars, servers, sessionToolState, inst, closing, smVars>>

\* ---------------------------------------------------------------- SessionManager
\* getOrCreateSession that builds a new record whenever a response object is passed.
GetOrCreateSessionReplace(id, res, options, now) ==
  /\ sessions' = [sessions EXCEPT ![id] =
                    IF ~sessions[id].has \/ res # NoRes
                    THEN [has |-> TRUE, res |-> res, lastUpdate |-> "none", createdAt |-> now,
                          userId |-> options.userId, username |-> options.username,
                          userRole |-> options.userRole]
                    ELSE @]
  /\ last' = Op("getOrCreateSession", id, "session",
                <<res, options.userId, options.username, options.userRole, now>>, NoInst)
  /\ written' = NoWrite
  /\ UNCHANGED <<regVars, reqVars, servers, sessionToolState, inst, closing, allWait,
                 sessionsWithDynamicTools, notified, wire>>

\* The sessions map after getOrCreateSession(id, res, options) at the time now.
GetOrCreateSessionIn(T, id, res, options, now) ==
  [T EXCEPT ![id] =
     IF ~T[id].has
     THEN [has |-> TRUE, res |-> res, lastUpdate |-> "none", createdAt |-> now,
           userId |-> options.userId, username |-> options.username,
           userRole |-> options.userRole]
     ELSE IF res # NoRes
     THEN [@ EXCEPT !.res = res,
                    !.userId = IF options.userId # Undefined THEN options.userId ELSE @,
                    !.username = IF options.username # Undefined THEN options.username ELSE @,
                    !.userRole = IF options.userRole # Undefined THEN options.userRole ELSE @]
     ELSE @]

\* getOrCreateSession(id, res, options) at the time now (`new Date()`): res = NoRes and
\* options = NoOptions when the argument is omitted.  last.names holds the arguments.
GetOrCreateSession(id, res, options, now) ==
  /\ sessions' = GetOrCreateSessionIn(sessions, id, res, options, now)
  /\ last' = Op("getOrCreateSession", id, "session",
                <<res, options.userId, options.username, options.userRole, now>>, NoInst)
  /\ written' = NoWrite
  /\ UNCHANGED <<regVars, reqVars, servers, sessionToolState, inst, closing, allWait,
                 sessionsWithDynamicTools, notified, wire>>

\* deleteSession that clears the activation markers of every session.
DeleteSessionInAll(T, id) ==
  [sessions |-> [T.sessions EXCEPT ![id] = NoSession],
   marked |-> {}]

\* The effect of deleteSession(id) on the two tables of the SessionManager.
DeleteSessionIn(T, id) ==
  [sessions |-> [T.sessions EXCEPT ![id] = NoSession],
   marked |-> T.marked \ {id}]

DeleteSession(id) ==
  /\ LET T == DeleteSessionIn([sessions |-> sessions, marked |-> sessionsWithDynamicTools], id)
     IN /\ sessions' = T.sessions
        /\ sessionsWithDynamicTools' = T.marked
  /\ written' = NoWrite
  /\ last' = Op("deleteSession", id, "void", <<>>, NoInst)
  /\ UNCHANGED <<regVars, reqVars, servers, sessionToolState, inst, closing, allWait, notified, wire>>

\* A send call whose event reaches the receiving side ahead of the events written before.
ObserveFirst(w, s, kind, wrote) ==
  IF ~w.on \/ w.calls[s] >= MaxWire THEN w
  ELSE [w EXCEPT !.calls[s] = @ + 1,
                 !.log[s] = IF wrote THEN <<[kind |-> kind, call |-> w.calls[s] + 1]>> \o @ ELSE @,
                 !.to[s] = IF wrote THEN <<sessions[s].res>> \o @ ELSE @]

\* A send call that writes to the channel of another session's record.
ObserveOther(w, s, kind, wrote) ==
  IF ~w.on \/ w.calls[s] >= MaxWire THEN w
  ELSE [w EXCEPT !.calls[s] = @ + 1,
                 !.log[s] = IF wrote THEN Append(@, [kind |-> kind, call |-> w.calls[s] + 1]) ELSE @,
                 !.to[s] = IF wrote THEN Append(@, sessions[CHOOSE t \in Sessions : t # s].res) ELSE @]

\* One send call for session s seen from the receiving side: the call is counted and,
\* when it wrote (session.res.write returned), its event follows the events written
\* before; `to` holds the response object each event was written to, which is the res
\* of the record found under the session id.  The first MaxWire calls of a session are
\* recorded.
Observe(w, s, kind, wrote) ==
  IF ~w.on \/ w.calls[s] >= MaxWire THEN w
  ELSE [w EXCEPT !.calls[s] = @ + 1,
                 !.log[s] = IF wrote THEN Append(@, [kind |-> kind, call |-> w.calls[s] + 1]) ELSE @,
                 !.to[s] = IF wrote THEN Append(@, sessions[s].res) ELSE @]

\* what can throw in a send call: nothing, session.res.write, session.res.end
Throws == {"no", "write", "end"}

\* sendComplete without its try/catch: what res.write or res.end throws reaches the caller.
SendCompleteNoCatch(id, throws) ==
  /\ throws # "no" => sessions[id].has /\ sessions[id].res # NoRes
  /\ IF ~sessions[id].has \/ sessions[id].res = NoRes
     THEN /\ last' = Op("sendComplete", id, "false", <<>>, NoInst)
          /\ written' = NoWrite
          /\ wire' = Observe(wire, id, "complete", FALSE)
          /\ UNCHANGED <<sessions, sessionsWithDynamicTools>>
     ELSE IF throws # "no"
     THEN /\ last' = Op("sendComplete", id, "threw", <<>>, NoInst)
          /\ written' = IF throws = "write" THEN NoWrite
                        ELSE [events |-> <<"complete">>, ended |-> FALSE]
          /\ wire' = Observe(wire, id, "complete", throws = "end")
          /\ UNCHANGED <<sessions, sessionsWithDynamicTools>>
     ELSE LET T == DeleteSessionIn([sessions |-> sessions, marked |-> sessionsWithDynamicTools], id)
          IN /\ sessions' = T.sessions
             /\ sessionsWithDynamicTools' = T.marked
             /\ written' = [events |-> <<"complete">>, ended |-> TRUE]
             /\ wire' = Observe(wire, id, "complete", TRUE)
             /\ last' = Op("sendComplete", id, "true", <<>>, NoInst)
  /\ UNCHANGED <<regVars, reqVars, servers, sessionToolState, inst, closing, allWait, notified>>

\* sendComplete(id, success, error).
SendComplete(id, throws) ==
  /\ throws # "no" => sessions[id].has /\ sessions[id].res # NoRes
  /\ IF ~sessions[id].has \/ sessions[id].res = NoRes
     THEN /\ last' = Op("sendComplete", id, "false", <<>>, NoInst)
          /\ written' = NoWrite
          /\ wire' = Observe(wire, id, "complete", FALSE)
          /\ UNCHANGED <<sessions, sessionsWithDynamicTools>>
     ELSE IF throws = "write"
     THEN /\ last' = Op("sendComplete", id, "false", <<>>, NoInst)
          /\ written' = NoWrite
          /\ wire' = Observe(wire, id, "complete", FALSE)
          /\ UNCHANGED <<sessions, sessionsWithDynamicTools>>
     ELSE IF throws = "end"
     THEN /\ last' = Op("sendComplete", id, "false", <<>>, NoInst)
          /\ written' = [events |-> <<"complete">>, ended |-> FALSE]
          /\ wire' = Observe(wire, id, "complete", TRUE)
          /\ UNCHANGED <<sessions, sessionsWithDynamicTools>>
     ELSE LET T == DeleteSessionIn([sessions |-> sessions, marked |-> sessionsWithDynamicTools], id)
          IN /\ sessions' = T.sessions
             /\ sessionsWithDynamicTools' = T.marked
             /\ written' = [events |-> <<"complete">>, ended |-> TRUE]
             /\ wire' = Observe(wire, id, "complete", TRUE)
             /\ last' = Op("sendComplete", id, "true", <<>>, NoInst)
  /\ UNCHANGED <<regVars, reqVars, servers, sessionToolState, inst, closing, allWait, notified>>

\* sendNotification(id, message).  throws: session.res.write throws.
\* The result: what is returned and what reaches the response.
SendNotificationIn(T, id, throws) ==
  IF ~T[id].has \/ T[id].res = NoRes THEN [ret |-> FALSE, written |-> NoWrite]
  ELSE IF throws THEN [ret |-> FALSE, written |-> NoWrite]
  ELSE [ret |-> TRUE, written |-> [events |-> <<"notification">>, ended |-> FALSE]]

SendNotification(id, throws) ==
  /\ throws => sessions[id].has /\ sessions[id].res # NoRes
  /\ LET r == SendNotificationIn(sessions, id, throws)
     IN /\ written' = r.written
        /\ wire' = Observe(wire, id, "notification", r.ret)
        /\ last' = Op("sendNotification", id, IF r.ret THEN "true" ELSE "false", <<>>, NoInst)
  /\ UNCHANGED <<regVars, reqVars, servers, sessionToolState, inst, closing, allWait,
                 sessions, sessionsWithDynamicTools, notified>>

\* sendProgress that records the snapshot before it looks for the channel.
SendProgressRecordFirst(id, stage, throws) ==
  /\ throws => sessions[id].has /\ sessions[id].res # NoRes
  /\ sessions' = IF sessions[id].has THEN [sessions EXCEPT ![id].lastUpdate = stage] ELSE sessions
  /\ IF ~sessions[id].has \/ sessions[id].res = NoRes \/ throws
     THEN /\ last' = Op("sendProgress", id, "false", <<stage>>, NoInst)
          /\ written' = NoWrite
          /\ wire' = Observe(wire, id, "progress", FALSE)
     ELSE /\ last' = Op("sendProgress", id, "true", <<stage>>, NoInst)
          /\ written' = [events |-> <<"progress">>, ended |-> FALSE]
          /\ wire' = Observe(wire, id, "progress", TRUE)
  /\ UNCHANGED <<regVars, reqVars, servers, sessionToolState, inst, closing, allWait,
                 sessionsWithDynamicTools, notified>>

\* sendProgress that records the snapshot after the write, inside the try block.
SendProgressAfterWrite(id, stage, throws) ==
  /\ throws => sessions[id].has /\ sessions[id].res # NoRes
  /\ IF ~sessions[id].has \/ sessions[id].res = NoRes \/ throws
     THEN /\ last' = Op("sendProgress", id, "false", <<stage>>, NoInst)
          /\ written' = NoWrite
          /\ wire' = Observe(wire, id, "progress", FALSE)
          /\ UNCHANGED sessions
     ELSE /\ sessions' = [sessions EXCEPT ![id].lastUpdate = stage]
          /\ last' = Op("sendProgress", id, "true", <<stage>>, NoInst)
          /\ written' = [events |-> <<"progress">>, ended |-> FALSE]
          /\ wire' = Observe(wire, id, "progress", TRUE)
  /\ UNCHANGED <<regVars, reqVars, servers, sessionToolState, inst, closing, allWait,
                 sessionsWithDynamicTools, notified>>

\* sendProgress(id, stage, percent, message).  throws: session.res.write throws.
\* last.names holds the stage.
SendProgress(id, stage, throws) ==
  /\ throws => sessions[id].has /\ sessions[id].res # NoRes
  /\ IF ~sessions[id].has \/ sessions[id].res = NoRes
     THEN /\ last' = Op("sendProgress", id, "false", <<stage>>, NoInst)
          /\ written' = NoWrite
          /\ wire' = Observe(wire, id, "progress", FALSE)
          /\ UNCHANGED sessions
     ELSE /\ sessions' = [sessions EXCEPT ![id].lastUpdate = stage]
          /\ IF throws
             THEN /\ last' = Op("sendProgress", id, "false", <<stage>>, NoInst)
                  /\ written' = NoWrite
                  /\ wire' = Observe(wire, id, "progress", FALSE)
             ELSE /\ last' = Op("sendProgress", id, "true", <<stage>>, NoInst)
                  /\ written' = [events |-> <<"progress">>, ended |-> FALSE]
                  /\ wire' = Observe(wire, id, "progress", TRUE)
  /\ UNCHANGED <<regVars, reqVars, servers, sessionToolState, inst, closing, allWait,
                 sessionsWithDynamicTools, notified>>

\* ---------------------------------------------------------------- analyzeMessage
\* A text is a sequence of characters.
UpperChars == <<"A", "B", "C", "D", "E", "F", "G", "H", "I", "J", "K", "L", "M",
                "N", "O", "P", "Q", "R", "S", "T", "U", "V", "W", "X", "Y", "Z">>
LowerChars == <<"a", "b", "c", "d", "e", "f", "g", "h", "i", "j", "k", "l", "m",
                "n", "o", "p", "q", "r", "s", "t", "u", "v", "w", "x", "y", "z">>

\* toLowerCase that leaves the text as it is.
ToLowerCaseKeep(text) == text

\* String.prototype.toLowerCase on the letters A-Z
ToLowerCase(text) ==
  [k \in 1..Len(text) |->
     IF \E j \in 1..Len(UpperChars) : UpperChars[j] = text[k]
     THEN LowerChars[CHOOSE j \in 1..Len(UpperChars) : UpperChars[j] = text[k]]
     ELSE text[k]]

\* String.prototype.includes
Includes(text, keyword) ==
  \E k \in 0..(Len(text) - Len(keyword)) :
    \A j \in 1..Len(keyword) : text[k + j] = keyword[j]

documentKeywords ==
  << <<"d","o","c","u","m","e","n","t">>, <<"f","i","l","e">>, <<"t","e","x","t">>,
     <<"a","n","a","l","y","z","e">>, <<"p","a","r","s","e">>, <<"e","x","t","r","a","c","t">>,
     <<"c","o","n","t","e","n","t">>, <<"r","e","a","d">>, <<"s","u","m","m","a","r","i","z","e">>,
     <<"p","d","f">>, <<"d","o","c">>, <<"d","o","c","x">>, <<"t","x","t">> >>

documentToolIds == <<"summarizeDocument", "countWordsAndCharacters", "detectDocumentFormat">>

\* documentKeywords.some(keyword => lowercaseMessage.includes(keyword))
HasDocumentKeywords(message) ==
  \E lowercaseMessage \in {ToLowerCase(message)} :
    \E n \in 1..Len(documentKeywords) : Includes(lowercaseMessage, documentKeywords[n])

CountNotified(n) == IF n < NotifCap THEN n + 1 ELSE n

\* analyzeMessage without the test of the marker.
AnalyzeInNoSkip(s, message, throws) ==
  LET same == [sts |-> sessionToolState, inst |-> inst, marked |-> sessionsWithDynamicTools,
               written |-> NoWrite, notified |-> notified]
  IN IF ~HasDocumentKeywords(message) THEN [ret |-> "nomatch"] @@ same
     ELSE IF servers[s] = NoInst THEN [ret |-> "notenabled"] @@ same
     ELSE LET r == EnableResult(s, documentToolIds)
              n == SendNotificationIn(sessions, s, throws)
              sts1 == [sessionToolState EXCEPT ![s] = [has |-> TRUE, enabled |-> r.enabled]]
              inst1 == [inst EXCEPT ![servers[s]] = r.server]
          IN IF r.toolsAdded
             THEN [ret |-> IF throws THEN "enabledThrew" ELSE "enabled",
                   sts |-> sts1, inst |-> inst1,
                   marked |-> sessionsWithDynamicTools \cup {s},
                   written |-> n.written,
                   notified |-> [notified EXCEPT ![s] = IF n.ret THEN CountNotified(@) ELSE @]]
             ELSE [ret |-> "notenabled", sts |-> sts1, inst |-> inst1,
                   marked |-> sessionsWithDynamicTools, written |-> NoWrite,
                   notified |-> notified]

\* The effect of analyzeMessage(sessionId, message): the path taken (ret) and the tables
\* after it.  ret is "marked", "nomatch", "notenabled" (the enable call returned
\* false), "enabled" or "enabledThrew" (it returned true; the write of the
\* notification threw).
AnalyzeIn(s, message, throws) ==
  LET same == [sts |-> sessionToolState, inst |-> inst, marked |-> sessionsWithDynamicTools,
               written |-> NoWrite, notified |-> notified]
  IN IF s \in sessionsWithDynamicTools THEN [ret |-> "marked"] @@ same
     ELSE IF ~HasDocumentKeywords(message) THEN [ret |-> "nomatch"] @@ same
     ELSE IF servers[s] = NoInst THEN [ret |-> "notenabled"] @@ same
     ELSE LET r == EnableResult(s, documentToolIds)
              n == SendNotificationIn(sessions, s, throws)
              sts1 == [sessionToolState EXCEPT ![s] = [has |-> TRUE, enabled |-> r.enabled]]
              inst1 == [inst EXCEPT ![servers[s]] = r.server]
          IN IF r.toolsAdded
             THEN [ret |-> IF throws THEN "enabledThrew" ELSE "enabled",
                   sts |-> sts1, inst |-> inst1,
                   marked |-> sessionsWithDynamicTools \cup {s},
                   written |-> n.written,
                   notified |-> [notified EXCEPT ![s] = IF n.ret THEN CountNotified(@) ELSE @]]
             ELSE [ret |-> "notenabled", sts |-> sts1, inst |-> inst1,
                   marked |-> sessionsWithDynamicTools, written |-> NoWrite,
                   notified |-> notified]

\* the write of the notification can throw only where it is attempted
WriteAttempted(s, a) ==
  /\ a.ret \in {"enabled", "enabledThrew"}
  /\ sessions[s].has /\ sessions[s].res # NoRes

\* analyzeMessage(sessionId, message).  throws: the write of the notification throws.
\* last.names holds the message.
AnalyzeMessage(s, message, throws) ==
  /\ throws => (sessions[s].has /\ sessions[s].res # NoRes /\ servers[s] # NoInst)
  /\ \E a \in {AnalyzeIn(s, message, throws)} :
     /\ throws => WriteAttempted(s, a)
     /\ sessionToolState' = a.sts
     /\ inst' = a.inst
     /\ sessionsWithDynamicTools' = a.marked
     /\ written' = a.written
     /\ notified' = a.notified
     /\ wire' = IF a.ret \in {"enabled", "enabledThrew"}
                THEN Observe(wire, s, "notification", a.written.events # <<>>)
                ELSE wire
     /\ last' = Op("analyzeMessage", s, a.ret, message,
                   IF a.ret \in {"marked", "nomatch"} THEN NoInst ELSE servers[s])
     /\ UNCHANGED <<regVars, reqVars, servers, closing, allWait, sessions>>

\* handleRequest(req, res, "POST") from its entry to the await in getOrCreateServer (or
\* to its return of the tracked instance): the message of the body is analyzed, then
\* the instance is looked up or constructed.  message = <<>>: no text in the body.
HandlePost(s, message, throws) ==
  /\ throws => (sessions[s].has /\ sessions[s].res # NoRes /\ servers[s] # NoInst)
  /\ \E a \in {AnalyzeIn(s, message, throws)} :
     /\ throws => WriteAttempted(s, a)
     /\ sessionToolState' = a.sts
     /\ sessionsWithDynamicTools' = a.marked
     /\ written' = a.written
     /\ notified' = a.notified
     /\ wire' = IF a.ret \in {"enabled", "enabledThrew"}
                THEN Observe(wire, s, "notification", a.written.events # <<>>)
                ELSE wire
     /\ IF servers[s] # NoInst
        THEN /\ inst' = a.inst
             /\ last' = Op("handlePost", s, a.ret, message, servers[s])
        ELSE /\ FreshInst # NoInst
             /\ LET i == FreshInst
                    server == [Unused EXCEPT !.sid = s, !.st = "connecting"]
                IN /\ inst' = [a.inst EXCEPT ![i] = ApplyRegistrationsToServer(server)]
                   /\ last' = Op("handlePost", s, a.ret, message, i)
     /\ UNCHANGED <<regVars, reqVars, servers, closing, allWait, sessions>>

\* ---------------------------------------------------------------- handleRequest
\* enum JsonRpcErrorCode
JsonRpcErrorCode ==
  [ParseError |-> -32700, InvalidRequest |-> -32600, MethodNotFound |-> -32601,
   InvalidParams |-> -32602, InternalError |-> -32603, ServerError |-> -32000,
   AuthenticationRequired |-> -32001, ResourceNotFound |-> -32002,
   ToolNotFound |-> -32003, PromptNotFound |-> -32004]

GetHttpStatusForErrorCode(code) ==
  IF code \in {JsonRpcErrorCode.ParseError, JsonRpcErrorCode.InvalidRequest,
               JsonRpcErrorCode.InvalidParams} THEN 400
  ELSE IF code = JsonRpcErrorCode.MethodNotFound THEN 404
  ELSE IF code = JsonRpcErrorCode.AuthenticationRequired THEN 401
  ELSE IF code \in {JsonRpcErrorCode.ResourceNotFound, JsonRpcErrorCode.ToolNotFound,
                    JsonRpcErrorCode.PromptNotFound} THEN 404
  ELSE 500

\* sendJsonRpcError(res, code, message): res.status(status).json(createJsonRpcError(code, ...))
SendJsonRpcError(code) ==
  [sent |-> TRUE, envelope |-> TRUE, status |-> GetHttpStatusForErrorCode(code), code |-> code]

\* the response the transport has written (or begun) itself
TransportResponse == [sent |-> TRUE, envelope |-> FALSE, status |-> 200, code |-> 0]

\* What transport.handleRequest can throw: an McpError with one of the codes, or
\* another exception ("Error"); NoError: it returns.
NoError == "none"
Errors == {"Error", "ToolNotFound", "InvalidParams"}

\* handleError that answers every exception with InternalError.
HandleErrorInternal(error, headersSent) ==
  IF headersSent THEN TransportResponse
  ELSE SendJsonRpcError(JsonRpcErrorCode.InternalError)

\* handleError(res, error).  headersSent: res.headersSent.
HandleError(error, headersSent) ==
  IF headersSent THEN TransportResponse
  ELSE IF error # "Error" THEN SendJsonRpcError(JsonRpcErrorCode[error])
  ELSE SendJsonRpcError(JsonRpcErrorCode.InternalError)

Methods == {"GET", "POST", "DELETE"}

\* what a session is made of: its instance, its enabled set, its record and its marker
Snapshot(s) ==
  [inst |-> servers[s], state |-> sessionToolState[s], record |-> sessions[s],
   marked |-> s \in sessionsWithDynamicTools]

\* randomUUID(): an identifier nothing in the program knows
FreshIds ==
  {s \in Sessions : /\ servers[s] = NoInst
                    /\ ~sessionToolState[s].has
                    /\ ~sessions[s].has
                    /\ s \notin sessionsWithDynamicTools
                    /\ \A i \in InstIds : inst[i].sid # s
                    /\ \A r \in requests : r.sid # s}

\* the session id handleRequest works with; "none": the request is rejected
SessionIdsNoMethod(method, header) ==
  IF header # NoHeader THEN {header} ELSE FreshIds

SessionIds(method, header) ==
  IF header # NoHeader THEN {header}
  ELSE IF method = "POST" THEN FreshIds
  ELSE {"none"}

\* the body of the request is no tools/call
NoCall == "none"
\* the capability names of the tools/call requests; "unknownTool" is never registered
CallNames == {"summarizeDocument", "unknownTool"}

\* analyzeMessage is not called
NotAnalyzed ==
  [ret |-> "none", sts |-> sessionToolState, inst |-> inst,
   marked |-> sessionsWithDynamicTools, written |-> NoWrite, notified |-> notified]

\* handleRequest(req, res, method) from its entry to the await of getOrCreateServer, or
\* to its return when no session id can be resolved.  header: the mcp-session-id
\* header; message: the text of the body (POST); throws: the write of the notification
\* throws; call: the capability name of a tools/call body, NoCall for another body.
\* The call waits in `requests` with what the session was at its entry.
HandleRequestCalling(method, header, message, throws, call) ==
  /\ Cardinality(requests) < MaxReq
  /\ method # "POST" => (message = <<>> /\ ~throws /\ call = NoCall)
  /\ call # NoCall => message = <<>>
  /\ \E sessionId \in SessionIds(method, header) :
       IF sessionId = "none"
       THEN /\ response' = SendJsonRpcError(JsonRpcErrorCode.InvalidRequest)
            /\ last' = Op("handleRequest", "none", "rejected", <<method, header>>, NoInst)
            /\ UNCHANGED <<regVars, servers, sessionToolState, inst, closing, allWait, sessions,
                           sessionsWithDynamicTools, written, notified, wire, requests>>
       ELSE /\ throws => (sessions[sessionId].has /\ sessions[sessionId].res # NoRes
                          /\ servers[sessionId] # NoInst)
            /\ \E a \in {IF method = "POST" /\ message # <<>>
                         THEN AnalyzeIn(sessionId, message, throws) ELSE NotAnalyzed} :
               /\ throws => WriteAttempted(sessionId, a)
               /\ sessionToolState' = a.sts
               /\ sessionsWithDynamicTools' = a.marked
               /\ written' = a.written
               /\ notified' = a.notified
               /\ wire' = IF a.ret \in {"enabled", "enabledThrew"}
                          THEN Observe(wire, sessionId, "notification", a.written.events # <<>>)
                          ELSE wire
               /\ \E i \in {IF servers[sessionId] # NoInst THEN servers[sessionId] ELSE FreshInst} :
                  /\ i # NoInst
                  /\ inst' = IF servers[sessionId] # NoInst THEN a.inst
                             ELSE [a.inst EXCEPT ![i] = ApplyRegistrationsToServer(
                                                   [Unused EXCEPT !.sid = sessionId, !.st = "connecting"])]
                  /\ requests' = requests \cup {[sid |-> sessionId, method |-> method, at |-> "connect",
                                                 inst |-> i, before |-> Snapshot(sessionId),
                                                 call |-> call]}
                  /\ last' = Op("handleRequest", sessionId, a.ret, <<method, header>>, i)
               /\ UNCHANGED <<regVars, servers, closing, allWait, sessions, response>>

\* handleRequest for a body that calls no capability
HandleRequest(method, header, message, throws) ==
  HandleRequestCalling(method, header, message, throws, NoCall)

\* handleRequest(req, res, "POST") for the body {method: "tools/call", params: {name}}:
\* extractMessageContent returns "" for it
HandleCall(header, name) ==
  HandleRequestCalling("POST", header, <<>>, FALSE, name)

\* handleRequest from the return of getOrCreateServer to the await of
\* transport.handleRequest: a GET request binds its response object to the session record.
\* options: the identity the route handler passed to handleRequest.  last.names holds
\* the method, the response object and the identity.
HandleRequestConnected(r, res, options, now) ==
  /\ r \in requests
  /\ r.at = "connect"
  /\ inst[r.inst].st # "connecting"
  /\ sessions' = IF r.method = "GET" THEN GetOrCreateSessionIn(sessions, r.sid, res, options, now)
                 ELSE sessions
  /\ requests' = (requests \ {r}) \cup {[r EXCEPT !.at = "transport"]}
  /\ written' = NoWrite
  /\ last' = Op("handleRequestConnected", r.sid, "await",
                <<r.method, res, options.userId, options.username>>, r.inst)
  /\ UNCHANGED <<regVars, servers, sessionToolState, inst, closing, allWait,
                 sessionsWithDynamicTools, notified, wire, response>>

\* handleRequest from the end of transport.handleRequest to its return.  error: what the
\* transport threw (NoError: nothing: a DELETE request then calls closeServer and does
\* not wait for it); headersSent: the transport had sent the response headers.
\* last.names holds the method, the error, whether the headers were sent, and the
\* capability name the body called.  The name of a tools/call is looked up by the
\* McpServer of the instance, which answers through the transport; nothing in the
\* program throws an McpError for it, so the transport returns or throws another exception.
HandleRequestReturn(r, error, headersSent) ==
  /\ r \in requests
  /\ r.at = "transport"
  /\ error = NoError => headersSent
  /\ r.call # NoCall => error \in {NoError, "Error"}
  /\ requests' = requests \ {r}
  /\ written' = NoWrite
  /\ IF error = NoError
     THEN /\ response' = TransportResponse
          /\ IF r.method = "DELETE"
             THEN SetTables(CloseServerSync(Tables, r.sid, 1))
             ELSE UNCHANGED <<servers, sessionToolState, inst, closing>>
          /\ last' = Op("handleRequestReturn", r.sid, "ok",
                        <<r.method, error, IF headersSent THEN "sent" ELSE "unsent", r.call>>, r.inst)
     ELSE /\ response' = HandleError(error, headersSent)
          /\ UNCHANGED <<servers, sessionToolState, inst, closing>>
          /\ last' = Op("handleRequestReturn", r.sid, "failed",
                        <<r.method, error, IF headersSent THEN "sent" ELSE "unsent", r.call>>, r.inst)
  /\ UNCHANGED <<regVars, allWait, sessions, sessionsWithDynamicTools, notified, wire>>

\* ---------------------------------------------------------------- extractMessageContent
\* A request body as far as extractMessageContent looks at it.  A content part: null, or
\* an object with a type and a text that is a string or not.
NullPart == [nullish |-> TRUE, type |-> "none", isString |-> FALSE, text |-> <<>>]
TextPart(text) == [nullish |-> FALSE, type |-> "text", isString |-> TRUE, text |-> text]
ImagePart == [nullish |-> FALSE, type |-> "image", isString |-> FALSE, text |-> <<>>]
NumberPart == [nullish |-> FALSE, type |-> "text", isString |-> FALSE, text |-> <<"7">>]

\* The content of a message: a string, an array of parts, an object with a type and a
\* text (textKind "string", "number" or "absent"), null, or absent.
Content(kind, text, parts, type, textKind) ==
  [kind |-> kind, text |-> text, parts |-> parts, type |-> type, textKind |-> textKind]
StringContent(text) == Content("string", text, <<>>, "none", "absent")
ArrayContent(parts) == Content("array", <<>>, parts, "none", "absent")
ObjectContent(type, text, textKind) == Content("object", text, <<>>, type, textKind)
NullContent == Content("null", <<>>, <<>>, "none", "absent")

\* A message: null, or an object with a content
NullMessage == [nullish |-> TRUE, content |-> NullContent]
Message(content) == [nullish |-> FALSE, content |-> content]

\* A body: object is `body && typeof body === "object"`, method is body.method,
\* messages is body.params?.messages ("absent": falsy, "other": truthy and no array)
Body(object, method, kind, items) ==
  [object |-> object, method |-> method, messages |-> [kind |-> kind, items |-> items]]
Generate(items) == Body(TRUE, "generate", "array", items)

Bodies ==
  [ string      |-> Generate(<<Message(StringContent(<<"d","o","c">>))>>),
    last        |-> Generate(<<Message(StringContent(<<"d","o","c">>)),
                               Message(StringContent(<<"h","i">>))>>),
    parts       |-> Generate(<<Message(ArrayContent(<<TextPart(<<"d","o">>), ImagePart,
                                                       TextPart(<<"c">>)>>))>>),
    partsDoc    |-> Generate(<<Message(ArrayContent(<<TextPart(<<"h","i">>),
                                                       TextPart(<<"d","o","c">>)>>))>>),
    badPart     |-> Generate(<<Message(ArrayContent(<<NumberPart, TextPart(<<"d","o","c">>)>>))>>),
    noText      |-> Generate(<<Message(ArrayContent(<<ImagePart>>))>>),
    object      |-> Generate(<<Message(ObjectContent("text", <<"d","o","c">>, "string"))>>),
    image       |-> Generate(<<Message(ObjectContent("image", <<>>, "absent"))>>),
    noTextObj   |-> Generate(<<Message(ObjectContent("text", <<>>, "absent"))>>),
    numText     |-> Generate(<<Message(ObjectContent("text", <<"7">>, "number"))>>),
    nullContent |-> Generate(<<Message(NullContent)>>),
    other       |-> Body(TRUE, "tools/call", "array", <<Message(StringContent(<<"d","o","c">>))>>),
    noParams    |-> Body(TRUE, "generate", "absent", <<>>),
    empty       |-> Generate(<<>>),
    notArray    |-> Body(TRUE, "generate", "other", <<>>),
    notObject   |-> Body(FALSE, "none", "absent", <<>>),
    nullMessage |-> Generate(<<Message(StringContent(<<"d","o","c">>)), NullMessage>>),
    nullPart    |-> Generate(<<Message(ArrayContent(<<NullPart, TextPart(<<"d","o","c">>)>>))>>) ]

BodyNames == DOMAIN Bodies

\* Array.prototype.join(" ")
RECURSIVE Join(_)
Join(texts) ==
  IF texts = <<>> THEN <<>>
  ELSE IF Len(texts) = 1 THEN texts[1]
  ELSE texts[1] \o <<" ">> \o Join(Tail(texts))

\* what extractMessageContent gives: it throws (threw), or it returns a text that is a
\* string or not (string)
Returned(text) == [threw |-> FALSE, string |-> TRUE, text |-> text]
Thrown == [threw |-> TRUE, string |-> FALSE, text |-> <<>>]

IsTextPart(part) == part.type = "text" /\ part.isString
PartText(part) == part.text

\* the content parts array: filter, map, join
ExtractParts(parts) ==
  IF \E k \in 1..Len(parts) : parts[k].nullish THEN Thrown
  ELSE LET texts == SelectSeq(parts, IsTextPart)
       IN Returned(Join([k \in 1..Len(texts) |-> PartText(texts[k])]))

\* extractMessageContent(body)
ExtractMessageContent(body) ==
  IF ~body.object THEN Returned(<<>>)
  ELSE IF body.method = "generate" /\ body.messages.kind = "array" /\ Len(body.messages.items) > 0
  THEN LET lastMessage == body.messages.items[Len(body.messages.items)]
       IN IF lastMessage.nullish THEN Thrown
          ELSE IF lastMessage.content.kind = "string" THEN Returned(lastMessage.content.text)
          ELSE IF lastMessage.content.kind = "array" THEN ExtractParts(lastMessage.content.parts)
          ELSE IF lastMessage.content.kind = "object" /\ lastMessage.content.type = "text"
          THEN IF lastMessage.content.textKind = "absent" THEN Returned(<<>>)
               ELSE [threw |-> FALSE, string |-> lastMessage.content.textKind = "string",
                     text |-> lastMessage.content.text]
          ELSE Returned(<<>>)
  ELSE Returned(<<>>)

\* handleRequest(req, res, "POST") when extractMessageContent or analyzeMessage throws:
\* the catch block answers with handleError, nothing else has happened.
HandlePostThrew(header) ==
  /\ Cardinality(requests) < MaxReq
  /\ \E sessionId \in SessionIds("POST", header) :
       last' = Op("handleRequest", sessionId, "failed", <<"POST", header>>, NoInst)
  /\ response' = HandleError("Error", FALSE)
  /\ UNCHANGED <<regVars, servers, sessionToolState, inst, closing, allWait, sessions,
                 sessionsWithDynamicTools, written, notified, wire, requests>>

\* handleRequest(req, res, "POST") for the body named n, from its entry to the await of
\* getOrCreateServer or to its return from the catch block.  A content that is no
\* string makes analyzeMessage throw at toLowerCase unless the session is marked.
HandlePostBody(header, n, throws) ==
  \E x \in {ExtractMessageContent(Bodies[n])} :
    IF x.threw \/ (~x.string /\ header \notin sessionsWithDynamicTools)
    THEN ~throws /\ HandlePostThrew(header)
    ELSE HandleRequest("POST", header, x.text, throws)

\* the messages of the requests
Stages == {"processing"}

Messages ==
  { <<>>, <<"d","o","c">>, <<"D","o","C">>, <<"x","P","D","F","x">>,
    <<"d","o","x","c">>, <<"d","o">>, <<"h","i">> }

\* ---------------------------------------------------------------- DocumentsService
\* the mock data: id, owner, tags and visibility of the three documents
DOCUMENTS ==
  << [id |-> "doc1", ownerId |-> "1", tags |-> {"guide", "onboarding"}, isPublic |-> TRUE],
     [id |-> "doc2", ownerId |-> "1", tags |-> {"roadmap", "internal"}, isPublic |-> FALSE],
     [id |-> "doc3", ownerId |-> "2", tags |-> {"api", "documentation"}, isPublic |-> TRUE] >>

\* session?.userId for the record stored under the session id
SessionUserId(sessionId) ==
  IF sessions[sessionId].has THEN sessions[sessionId].userId ELSE Undefined

\* the ids of a list of documents
Ids(docs) == [k \in 1..Len(docs) |-> docs[k].id]

\* the list without access control
AccessibleDocumentsAll(sessionId) == DOCUMENTS

\* DOCUMENTS.filter((doc) => doc.isPublic || doc.ownerId === userId)
AccessibleDocuments(sessionId) ==
  LET userId == SessionUserId(sessionId)
      Accessible(doc) == doc.isPublic \/ doc.ownerId = userId
  IN SelectSeq(DOCUMENTS, Accessible)

\* getDocument(documentId, sessionId); last.names holds the id of the document returned
GetDocument(documentId, sessionId) ==
  /\ LET userId == SessionUserId(sessionId)
         Found(doc) == doc.id = documentId
         found == SelectSeq(DOCUMENTS, Found)
     IN last' = IF found = <<>> THEN Op("getDocument", sessionId, "null", <<>>, NoInst)
                ELSE IF found[1].isPublic \/ found[1].ownerId = userId
                THEN Op("getDocument", sessionId, "document", <<found[1].id>>, NoInst)
                ELSE Op("getDocument", sessionId, "null", <<>>, NoInst)
  /\ UNCHANGED <<regVars, servers, sessionToolState, inst, closing, allWait, smVars>>

\* getAccessibleDocuments(sessionId); last.names holds the ids of the documents returned
GetAccessibleDocuments(sessionId) ==
  /\ last' = Op("getAccessibleDocuments", sessionId, "documents",
                Ids(AccessibleDocuments(sessionId)), NoInst)
  /\ UNCHANGED <<regVars, servers, sessionToolState, inst, closing, allWait, smVars>>

\* getDocumentsByTag(tag, sessionId): the accessible documents are computed within the
\* call, before its await; the continuation filters them by tag.
GetDocumentsByTag(tag, sessionId) ==
  /\ LET HasTag(doc) == tag \in doc.tags
     IN last' = Op("getDocumentsByTag", sessionId, "documents",
                   Ids(SelectSeq(AccessibleDocuments(sessionId), HasTag)), NoInst)
  /\ UNCHANGED <<regVars, servers, sessionToolState, inst, closing, allWait, smVars>>

\* ---------------------------------------------------------------- specifications
\* The operations of McpServerService on the sessions S, enabling the lists L.
ServiceNext(S, L) ==
  \/ \E s \in S : GetOrCreateServer(s)
  \/ \E i \in InstIds : GetOrCreateServerResume(i)
  \/ \E i \in InstIds : TransportInitialize(i)
  \/ \E s \in S, l \in L : EnableDynamicToolsForSession(s, l)
  \/ \E s \in S, th \in BOOLEAN : CloseServer(s, th)
  \/ \E c \in closing : CloseServerResume(c)
  \/ \E i \in InstIds : TransportClose(i)

\* The operations of the session store on the sessions S.
StoreNext(S) ==
  \/ \E s \in S, r \in Channels \cup {NoRes} : GetOrCreateSession(s, r, NoOptions, "t0")
  \/ \E s \in S : DeleteSession(s)
  \/ \E s \in S, th \in Throws : SendComplete(s, th)

Next == ServiceNext(Sessions, ShortLists)

Spec == Init /\ [][Next]_vars

\* One session with its session record, and closeAllServers.
NextStore ==
  \/ ServiceNext({"s1"}, ShortLists)
  \/ StoreNext({"s1"})
  \/ \E T \in SUBSET {"s1"} : CloseAllServers(T)
  \/ CloseAllServersReturn

SpecStore == Init /\ [][NextStore]_vars

\* The message operations of the SessionManager on the sessions S.
MessageNext(S) ==
  \/ \E s \in S, m \in Messages, th \in BOOLEAN : AnalyzeMessage(s, m, th)
  \/ \E s \in S, th \in BOOLEAN : SendNotification(s, th)
  \/ \E s \in S, g \in Stages, th \in BOOLEAN : SendProgress(s, g, th)

\* One session: its instance, its session record and the messages of its requests.
NextMessages ==
  \/ GetOrCreateServer("s1")
  \/ \E i \in InstIds : GetOrCreateServerResume(i)
  \/ \E l \in ShortLists \cup {documentToolIds} : EnableDynamicToolsForSession("s1", l)
  \/ CloseServer("s1", FALSE)
  \/ \E c \in closing : CloseServerResume(c)
  \/ StoreNext({"s1"})
  \/ MessageNext({"s1"})
  \/ \E m \in Messages, th \in BOOLEAN : HandlePost("s1", m, th)

SpecMessages == Init /\ [][NextMessages]_vars

\* Two sessions: every operation that takes a session id runs on "s1" (no failing
\* write or shutdown); "s2" gets an instance, an enabled set, a record and a marker.
NextIsolation ==
  \/ \E s \in Sessions : GetOrCreateServer(s)
  \/ \E i \in InstIds : GetOrCreateServerResume(i)
  \/ \E i \in InstIds : TransportInitialize(i)
  \/ EnableDynamicToolsForSession("s1", <<"summarizeDocument">>)
  \/ CloseServer("s1", FALSE)
  \/ \E c \in closing : CloseServerResume(c)
  \/ \E i \in InstIds : inst[i].sid = "s1" /\ TransportClose(i)
  \/ \E s \in Sessions, r \in Channels : GetOrCreateSession(s, r, NoOptions, "t0")
  \/ DeleteSession("s1")
  \/ SendComplete("s1", "no")
  \/ \E s \in Sessions : AnalyzeMessage(s, <<"d","o","c">>, FALSE)
  \/ SendNotification("s1", FALSE)
  \/ \E g \in Stages : SendProgress("s1", g, FALSE)

SpecIsolation == Init /\ [][NextIsolation]_vars

\* The push channels of two sessions with a receiving side that records what it
\* observes: the session store and the three send operations.
InitChannel ==
  /\ registeredTools = BootTools
  /\ registeredHandlers = [n \in RegNames |-> "h1"]
  /\ registeredStringResources = {}
  /\ registeredTemplateResources = TemplateResNames
  /\ registeredPrompts = PromptNames
  /\ servers = [s \in Sessions |-> NoInst]
  /\ sessionToolState = [s \in Sessions |-> NoState]
  /\ inst = [i \in InstIds |-> Unused]
  /\ closing = {}
  /\ allWait = NotWaiting
  /\ sessions = [s \in Sessions |-> NoSession]
  /\ sessionsWithDynamicTools = {}
  /\ written = NoWrite
  /\ notified = [s \in Sessions |-> 0]
  /\ wire = [NoWire EXCEPT !.on = TRUE]
  /\ requests = {}
  /\ response = NoResponse
  /\ last = Op("init", "none", "none", <<>>, NoInst)

NextChannel ==
  \/ \E s \in Sessions, r \in Channels \cup {NoRes} : GetOrCreateSession(s, r, NoOptions, "t0")
  \/ \E s \in Sessions : DeleteSession(s)
  \/ \E s \in Sessions, th \in Throws : SendComplete(s, th)
  \/ \E s \in Sessions, th \in BOOLEAN : SendNotification(s, th)
  \/ \E s \in Sessions, g \in Stages, th \in BOOLEAN : SendProgress(s, g, th)

SpecChannel == InitChannel /\ [][NextChannel]_vars

\* The response objects of the listen requests: each belongs to one request, and so
\* to one session id; a session that reconnects binds a new one.
ChannelsOf(s) == IF s = "s1" THEN {"res1", "res3"} ELSE {"res2"}

\* Two sessions that bind, rebind and lose their channels while events are sent.
NextDelivery ==
  \/ \E s \in Sessions : \E r \in ChannelsOf(s) \cup {NoRes} :
       GetOrCreateSession(s, r, NoOptions, "t0")
  \/ \E s \in Sessions : DeleteSession(s)
  \/ \E s \in Sessions : SendComplete(s, "no")
  \/ \E s \in Sessions, th \in BOOLEAN : SendNotification(s, th)
  \/ \E s \in Sessions, g \in Stages, th \in BOOLEAN : SendProgress(s, g, th)

SpecDelivery == InitChannel /\ [][NextDelivery]_vars

\* The document service of two sessions whose records are created with or without an
\* identity, rebound and deleted: every document id (and one that does not exist) and
\* a tag of each document.
DocumentOptions ==
  {[userId |-> u, username |-> Undefined, userRole |-> Undefined] : u \in {Undefined, "1", "2"}}

NextDocuments ==
  \/ \E s \in Sessions, r \in Channels \cup {NoRes}, o \in DocumentOptions :
       GetOrCreateSession(s, r, o, "t0")
  \/ \E s \in Sessions : DeleteSession(s)
  \/ \E s \in Sessions : SendComplete(s, "no")
  \/ \E d \in {"doc1", "doc2", "doc3", "doc4"}, s \in Sessions : GetDocument(d, s)
  \/ \E s \in Sessions : GetAccessibleDocuments(s)
  \/ \E g \in {"guide", "roadmap", "api"}, s \in Sessions : GetDocumentsByTag(g, s)

SpecDocuments == Init /\ [][NextDocuments]_vars

\* One session record with all its fields: the arguments of getOrCreateSession and
\* of sendProgress range over every combination of supplied and omitted values.
AllChannels == {"res1", "res2"}
Options == [userId : {Undefined, "u1", "u2"}, username : {Undefined, "alice"},
            userRole : {Undefined, "admin"}]
Times == {"t0", "t1"}
AllStages == {"parsing", "done"}

NextRecord ==
  \/ \E r \in AllChannels \cup {NoRes}, o \in Options, now \in Times :
       GetOrCreateSession("s1", r, o, now)
  \/ DeleteSession("s1")
  \/ \E g \in AllStages, th \in BOOLEAN : SendProgress("s1", g, th)
  \/ \E th \in Throws : SendComplete("s1", th)

SpecRecord == Init /\ [][NextRecord]_vars

\* sessionOptions of the route handlers: the authenticated user, if any
RequestOptions ==
  {NoOptions, [userId |-> "u1", username |-> "alice", userRole |-> Undefined]}

\* The requests of the three methods, with or without session id header, one at a
\* time, each followed from its entry to its return.
NextRequests ==
  \/ \E method \in Methods, header \in {"s1", NoHeader}, m \in {<<>>, <<"d","o","c">>},
        th \in BOOLEAN : HandleRequest(method, header, m, th)
  \/ \E header \in {"s1", NoHeader}, name \in CallNames : HandleCall(header, name)
  \/ \E i \in InstIds : GetOrCreateServerResume(i)
  \/ \E i \in InstIds : TransportInitialize(i)
  \/ \E r \in requests, o \in RequestOptions : HandleRequestConnected(r, "res1", o, "t0")
  \/ \E r \in requests, e \in Errors \cup {NoError}, hs \in BOOLEAN : HandleRequestReturn(r, e, hs)
  \/ \E c \in closing : CloseServerResume(c)

SpecRequests == Init /\ [][NextRequests]_vars

\* Send requests with bodies of every shape, and listen requests, one at a time.
NextExtract ==
  \/ \E header \in {"s1", NoHeader}, n \in BodyNames, th \in BOOLEAN : HandlePostBody(header, n, th)
  \/ \E header \in {"s1", NoHeader} : HandleRequest("GET", header, <<>>, FALSE)
  \/ \E i \in InstIds : GetOrCreateServerResume(i)
  \/ \E r \in requests : HandleRequestConnected(r, "res1", NoOptions, "t0")
  \/ \E r \in requests : HandleRequestReturn(r, NoError, TRUE)

SpecExtract == Init /\ [][NextExtract]_vars

\* The requests of SpecRequests when the event loop runs every continuation that is
\* ready: a suspended closeServer or getOrCreateServer call resumes, and a request
\* that waits for its instance or for the transport goes on.
SpecTerminate ==
  /\ Init
  /\ [][NextRequests]_vars
  /\ WF_vars(\E c \in closing : CloseServerResume(c))
  /\ WF_vars(\E i \in InstIds : GetOrCreateServerResume(i))
  /\ WF_vars(\E r \in requests, o \in RequestOptions : HandleRequestConnected(r, "res1", o, "t0"))
  /\ WF_vars(\E r \in requests, e \in Errors \cup {NoError}, hs \in BOOLEAN : HandleRequestReturn(r, e, hs))

\* Process shutdown: sessions are created and used, then closeAllServers runs; no
\* getOrCreateServer call starts or resumes while closeAllServers waits.  The awaited
\* promises settle and the event loop runs every continuation that is ready.
NextShutdown ==
  \/ ~allWait.active /\ \E s \in Sessions : GetOrCreateServer(s)
  \/ ~allWait.active /\ \E i \in InstIds : GetOrCreateServerResume(i)
  \/ \E i \in InstIds : TransportInitialize(i)
  \/ \E s \in Sessions : EnableDynamicToolsForSession(s, <<"summarizeDocument">>)
  \/ \E i \in InstIds : TransportClose(i)
  \/ \E T \in SUBSET Sessions : CloseAllServers(T)
  \/ \E c \in closing : CloseServerResume(c)
  \/ CloseAllServersReturn

SpecShutdown ==
  /\ Init
  /\ [][NextShutdown]_vars
  /\ WF_vars(\E c \in closing : CloseServerResume(c))
  /\ WF_vars(CloseAllServersReturn)

\* enableDynamicToolsForSession on every list of at most MaxNames names.
NextEnable ==
  \/ \E s \in Sessions : GetOrCreateServer(s)
  \/ \E i \in InstIds : GetOrCreateServerResume(i)
  \/ \E s \in Sessions, l \in NameLists : EnableDynamicToolsForSession(s, l)
  \/ \E s \in Sessions : CloseServer(s, FALSE)
  \/ \E c \in closing : CloseServerResume(c)

SpecEnable == Init /\ [][NextEnable]_vars

\* Registration at run time, from the registry as the constructor leaves it.
InitNew ==
  /\ registeredTools = [n \in RegNames |-> "absent"]
  /\ registeredHandlers = [n \in RegNames |-> NoHandler]
  /\ registeredStringResources = {}
  /\ registeredTemplateResources = {}
  /\ registeredPrompts = {}
  /\ servers = [s \in Sessions |-> NoInst]
  /\ sessionToolState = [s \in Sessions |-> NoState]
  /\ inst = [i \in InstIds |-> Unused]
  /\ closing = {}
  /\ allWait = NotWaiting
  /\ sessions = [s \in Sessions |-> NoSession]
  /\ sessionsWithDynamicTools = {}
  /\ written = NoWrite
  /\ notified = [s \in Sessions |-> 0]
  /\ wire = NoWire
  /\ requests = {}
  /\ response = NoResponse
  /\ last = Op("init", "none", "none", <<>>, NoInst)

NextRegistry ==
  \/ \E n \in {"userInfo", "summarizeDocument"}, d \in BOOLEAN : RegisterTool(n, "h1", d)
  \/ RegisterResource("document", TRUE)
  \/ \E n \in {"document-summary"} : RegisterPrompt(n)
  \/ GetOrCreateServer("s1")
  \/ \E i \in InstIds : GetOrCreateServerResume(i)
  \/ \E l \in ShortLists : EnableDynamicToolsForSession("s1", l)

SpecRegistry == InitNew /\ [][NextRegistry]_vars

\* Registration at run time over the registry of the modules: summarizeDocument is
\* registered again, with either handler and either flag, between the operations of
\* one session.
NextOverwrite ==
  \/ \E h \in Handlers, d \in BOOLEAN : RegisterTool("summarizeDocument", h, d)
  \/ GetOrCreateServer("s1")
  \/ \E i \in InstIds : GetOrCreateServerResume(i)
  \/ EnableDynamicToolsForSession("s1", <<"summarizeDocument">>)
  \/ CloseServer("s1", FALSE)
  \/ \E c \in closing : CloseServerResume(c)
  \/ CloseAllServers({})
  \/ CloseAllServersReturn
  \/ DeleteSession("s1")
  \/ AnalyzeMessage("s1", <<"d","o","c">>, FALSE)

SpecOverwrite == Init /\ [][NextOverwrite]_vars

\* ================================================================ claims
\* the instances of session s that are being created or are live
LiveInstances(s) == {i \in InstIds : inst[i].sid = s /\ inst[i].st \in {"connecting", "open"}}

\* C1: for every session id at most one server instance exists at any time (invariant
\* I1): no second instance is constructed for s while one is live or being created.
C1_AtMostOneInstance ==
  \A s \in Sessions : Cardinality(LiveInstances(s)) <= 1

\* C1 race: two calls for one session were both suspended at the connect; both have
\* resumed, two connected instances exist and the table tracks the later one only.
C1_TwoInstances ==
  \E i, j \in InstIds :
    /\ i # j
    /\ inst[i].sid = inst[j].sid
    /\ inst[i].st = "open" /\ inst[j].st = "open"
    /\ servers[inst[i].sid] = j
    /\ last.op = "getOrCreateServerReturn" /\ last.inst = j

\* C2: a getOrCreateServer(s) call that follows a call that returned instance i for s,
\* with no close in between, returns i again (the returned instance is the tracked
\* one, and a call on a tracked session returns the tracked one), applies no
\* registration and changes no table.
C2_IdempotentCreation ==
  [][ /\ (last'.op \in {"getOrCreateServer", "getOrCreateServerReturn"} /\ last'.ret # "await")
         => servers'[last'.sid] = last'.inst
      /\ \A s \in Sessions :
           (servers[s] # NoInst /\ last'.op = "getOrCreateServer" /\ last'.sid = s)
             => /\ last'.ret = "existing"
                /\ last'.inst = servers[s]
                /\ UNCHANGED <<regVars, servers, sessionToolState, inst, closing, allWait, smVars>>
    ]_vars

\* C2 witness: a second call has returned the tracked instance of its session.
C2_Witness ==
  /\ last.op = "getOrCreateServer"
  /\ last.ret = "existing"
  /\ last.inst = servers[last.sid]
  /\ inst[last.inst].st = "open"

\* C3: the instance getOrCreateServer returns as newly created carries every
\* non-dynamic tool, every resource and every prompt registered, carries no tool
\* registered as dynamic, and the enabled-dynamic set of its session is empty.
AllResources ==
  {<<"string", n>> : n \in registeredStringResources}
    \cup {<<"template", n>> : n \in registeredTemplateResources}

C3_FreshInstanceStaticOnly ==
  [][ last'.op = "getOrCreateServerReturn"
        => /\ inst'[last'.inst].tools = StaticTools
           /\ inst'[last'.inst].tools \cap DynamicTools = {}
           /\ inst'[last'.inst].resources = AllResources
           /\ inst'[last'.inst].prompts = registeredPrompts
           /\ sessionToolState'[last'.sid].enabled = {}
    ]_vars

\* C3 race: a creation has returned its new instance, which carries the static tools
\* only, while its session has a name enabled on the instance of a concurrent creation.
C3_FreshWithEnabledSet ==
  /\ last.op = "getOrCreateServerReturn"
  /\ servers[last.sid] = last.inst
  /\ inst[last.inst].tools = StaticTools
  /\ sessionToolState[last.sid].enabled # {}

\* the names of the list l that the registry knows as dynamic
ValidNames(l) == {l[k] : k \in 1..Len(l)} \cap DynamicTools
InvalidNames(l) == {l[k] : k \in 1..Len(l)} \ DynamicTools

\* C4: enabling dynamic names that are already enabled for the session leaves the
\* enabled set unchanged, projects nothing onto the instance and returns false.
C4_IdempotentEnable ==
  [][ \A s \in Sessions :
        ( /\ last'.op = "enable" /\ last'.sid = s
          /\ servers[s] # NoInst
          /\ ValidNames(last'.names) # {}
          /\ {last'.names[k] : k \in 1..Len(last'.names)} \subseteq sessionToolState[s].enabled )
        => /\ sessionToolState'[s].enabled = sessionToolState[s].enabled
           /\ inst' = inst
           /\ last'.ret = "false"
    ]_vars

\* C4 witness: an enable call on a name already enabled has returned false.
C4_Witness ==
  /\ last.op = "enable"
  /\ last.ret = "false"
  /\ servers[last.sid] # NoInst
  /\ ValidNames(last.names) # {}
  /\ {last.names[k] : k \in 1..Len(last.names)} \subseteq sessionToolState[last.sid].enabled
  /\ ValidNames(last.names) \subseteq inst[servers[last.sid]].tools

\* the names of l that a call for session s newly enables
NewNames(s, l) == ValidNames(l) \ sessionToolState[s].enabled

\* C5 as stated: enableDynamicToolsForSession(s, names) returns true iff some name of
\* names is registered, dynamic and not yet enabled for s, and the enabled set after
\* the call is the old set plus exactly those names.
C5_Original ==
  [][ \A s \in Sessions :
        (last'.op = "enable" /\ last'.sid = s)
        => /\ (last'.ret = "true") <=> (NewNames(s, last'.names) # {})
           /\ sessionToolState'[s].enabled
                = sessionToolState[s].enabled \cup NewNames(s, last'.names)
    ]_vars

\* C5 amended: the same for a session with a tracked instance; for a session with no
\* tracked instance the call returns false and changes nothing.
C5_EnableReturn ==
  [][ \A s \in Sessions :
        (last'.op = "enable" /\ last'.sid = s)
        => IF servers[s] # NoInst
           THEN /\ (last'.ret = "true") <=> (NewNames(s, last'.names) # {})
                /\ sessionToolState'[s].enabled
                     = sessionToolState[s].enabled \cup NewNames(s, last'.names)
           ELSE /\ last'.ret = "false"
                /\ UNCHANGED <<regVars, servers, sessionToolState, inst, closing, allWait, smVars>>
    ]_vars

\* C5 witness: a call that added a name while another name was already enabled.
C5_Witness ==
  /\ last.op = "enable"
  /\ last.ret = "true"
  /\ servers[last.sid] # NoInst
  /\ Cardinality(sessionToolState[last.sid].enabled) = 2
  /\ Len(last.names) = 1

\* C6: a name that is unknown or not dynamic is skipped: it enters neither the
\* enabled set nor the instance, the call returns normally, and every dynamic name
\* of the same list, before or after it, is enabled.
C6_SkipInvalid ==
  [][ \A s \in Sessions :
        (last'.op = "enable" /\ last'.sid = s /\ servers[s] # NoInst)
        => /\ last'.ret \in {"true", "false"}
           /\ InvalidNames(last'.names) \cap sessionToolState'[s].enabled = {}
           /\ InvalidNames(last'.names) \cap (inst'[servers[s]].tools \ inst[servers[s]].tools) = {}
           /\ inst'[servers[s]].nreg = inst[servers[s]].nreg + Cardinality(NewNames(s, last'.names))
           /\ ValidNames(last'.names) \subseteq sessionToolState'[s].enabled
    ]_vars

\* C6 witness: a list with an invalid name first and a dynamic name after it, and the
\* dynamic name has been enabled by that call.
C6_Witness ==
  /\ last.op = "enable"
  /\ last.ret = "true"
  /\ Len(last.names) = 2
  /\ last.names[1] \in InvalidNames(last.names)
  /\ last.names[2] \in sessionToolState[last.sid].enabled
  /\ last.names[2] \in inst[servers[last.sid]].tools

\* a closeServer call for s is suspended at its await
Pending(s) == \E c \in closing : c.sid = s
PendingAfter(s) == \E c \in closing' : c.sid = s

\* C7: closeServer(s) on a tracked session always reaches its cleanup: the call
\* suspends with its finally block pending, whether server.close() rejects or not, and
\* when it resumes it removes s from servers and from sessionToolState and returns
\* normally (the rejection is caught).
C7_CloseAlwaysCleansUp ==
  [][ /\ \A s \in Sessions :
           (last'.op = "closeServer" /\ last'.sid = s /\ servers[s] # NoInst)
             => (last'.ret = "await" /\ PendingAfter(s))
      /\ last'.op = "closeServerReturn"
           => /\ last'.ret \in {"void", "caught"}
              /\ servers'[last'.sid] = NoInst
              /\ sessionToolState'[last'.sid] = NoState
    ]_vars

\* C7 witness: a closeServer whose server.close() rejected has returned, and the
\* session, which had an enabled set, is in neither table.
C7_Witness ==
  /\ last.op = "closeServerReturn"
  /\ last.ret = "caught"
  /\ servers[last.sid] = NoInst
  /\ sessionToolState[last.sid] = NoState
  /\ inst[last.inst].tools \cap DynamicTools # {}

\* C8: closeServer(s) for a session with no tracked instance returns without error and
\* changes nothing: not the instance table, the enabled sets or the instances, not the
\* session records, not the activation markers, not the pending closes.
C8_CloseUntrackedNoEffect ==
  [][ \A s \in Sessions :
        (last'.op = "closeServer" /\ last'.sid = s /\ servers[s] = NoInst)
          => /\ last'.ret = "untracked"
             /\ UNCHANGED <<regVars, reqVars, servers, sessionToolState, inst, closing, allWait,
                             sessions, sessionsWithDynamicTools>>
    ]_vars

\* C8 witness: a close of an already closed session has returned, the session record
\* of that id still there.
C8_Witness ==
  /\ last.op = "closeServer"
  /\ last.ret = "untracked"
  /\ servers[last.sid] = NoInst
  /\ \E i \in InstIds : inst[i].sid = last.sid /\ inst[i].st = "closed"
  /\ sessions[last.sid].has
  /\ ~Pending(last.sid)

\* C9: when the connection of a session's instance ends, the close callback performs
\* full teardown: once the closeServer it calls is through, the instance is not
\* tracked, the enabled-dynamic state is cleared and the session record is removed.
C9_CallbackFullTeardown ==
  [][ (last'.op = "transportClose" /\ ~PendingAfter(last'.sid))
        => /\ servers'[last'.sid] = NoInst
           /\ sessionToolState'[last'.sid] = NoState
           /\ ~sessions'[last'.sid].has
    ]_vars

\* C9 state: the close callback has run to its end for an initialized transport, the
\* instance and the enabled set are gone, and the session record is still there.
C9_RecordSurvives ==
  /\ last.op = "transportClose"
  /\ inst[last.inst].tsid
  /\ ~Pending(last.sid)
  /\ servers[last.sid] = NoInst
  /\ sessionToolState[last.sid] = NoState
  /\ sessions[last.sid].has

\* C10: invariant I2: once a session record and an instance both exist for s, they are
\* destroyed together: a step after which no close of s is pending leaves both or
\* neither.
C10_DestroyedTogether ==
  [][ \A s \in Sessions :
        (sessions[s].has /\ servers[s] # NoInst /\ ~PendingAfter(s))
          => (sessions'[s].has <=> servers'[s] # NoInst)
    ]_vars

\* C10 state: sendComplete has deleted the session record and the open instance of the
\* session is still tracked.
C10_InstanceSurvives ==
  /\ last.op = "sendComplete"
  /\ last.ret = "true"
  /\ ~sessions[last.sid].has
  /\ servers[last.sid] # NoInst
  /\ inst[servers[last.sid]].st = "open"

\* C11: every created instance is destroyed exactly once: the underlying server of an
\* instance is shut down at most once, whether teardown starts in closeServer or in the
\* close callback, and the mutual calls of the two end, also for a transport that has
\* no session id yet.
C11_ShutdownAtMostOnce ==
  \A i \in InstIds : inst[i].shutdowns <= 1

\* C11 state: closeServer on an instance whose transport never handled an initialize
\* request: callback and closeServer called each other until the stack limit, and the
\* transport was closed more than once.
C11_RepeatedShutdown ==
  /\ last.op = "closeServer"
  /\ last.ret = "await"
  /\ ~inst[last.inst].tsid
  /\ inst[last.inst].shutdowns > 1
  /\ inst[last.inst].st = "closed"
  /\ servers[last.sid] = last.inst

\* the tables C12 compares, after the teardown M of a state
Cleanup(M) == [servers |-> M.servers, sts |-> M.sts]

\* C12: explicit termination and connection drop are equivalent: from any state,
\* closeServer(s) and the closing of an open transport of s, each followed by the
\* return of the closeServer calls it started, leave the same instance table and the
\* same enabled-dynamic state; and no step of either path changes the session store or
\* the activation markers.
C12_CloseEqualsDrop ==
  [][ /\ \A i \in InstIds :
           inst[i].st = "open"
             => Cleanup(FinishCloses(CloseServerSync(Tables, inst[i].sid, 1)))
                  = Cleanup(FinishCloses([OnClose(Tables, i, 1) EXCEPT !.inst[i].st = "closed"]))
      /\ last'.op \in {"closeServer", "closeServerReturn", "transportClose"}
           => UNCHANGED <<sessions, sessionsWithDynamicTools>>
    ]_vars

\* C12 witness: the transport of a tracked session with an enabled set and a session
\* record closed on its own; the session is in neither table, the record is kept.
C12_Witness ==
  /\ last.op = "transportClose"
  /\ inst[last.inst].tsid
  /\ inst[last.inst].tools \cap DynamicTools # {}
  /\ servers[last.sid] = NoInst
  /\ sessionToolState[last.sid] = NoState
  /\ closing = {}
  /\ sessions[last.sid].has

\* C13: sessions are isolated: an operation on session a leaves the tracked instance,
\* every instance, the enabled set, the session record and the activation marker of
\* every other session b as they were.
C13_SessionsIsolated ==
  [][ \A a, b \in Sessions :
        (a # b /\ last'.sid = a)
          => /\ servers'[b] = servers[b]
             /\ \A i \in InstIds : inst[i].sid = b => inst'[i] = inst[i]
             /\ sessionToolState'[b] = sessionToolState[b]
             /\ sessions'[b] = sessions[b]
             /\ (b \in sessionsWithDynamicTools') <=> (b \in sessionsWithDynamicTools)
             /\ notified'[b] = notified[b]
    ]_vars

\* C13 witness: closeServer("s1") has returned and "s2" still has its open instance,
\* its enabled tools, its session record and its activation marker.
C13_Witness ==
  /\ last.op = "closeServerReturn"
  /\ last.sid = "s1"
  /\ servers["s1"] = NoInst
  /\ servers["s2"] # NoInst
  /\ inst[servers["s2"]].st = "open"
  /\ sessionToolState["s2"].enabled # {}
  /\ sessions["s2"].has
  /\ "s2" \in sessionsWithDynamicTools

\* C14: at-most-once activation: for every session and every sequence of messages that
\* each contain a trigger keyword, the activation notification is emitted exactly
\* once: after each such message the session has been notified once, no more, no less.
C14_NotifiedExactlyOnce ==
  [][ \A s \in Sessions :
        (last'.op = "analyzeMessage" /\ last'.sid = s /\ HasDocumentKeywords(last'.names))
          => notified'[s] = 1
    ]_vars

\* C14 state: a message with a keyword has been analyzed for a session that has no
\* instance yet; nothing was enabled, nothing was sent, the session is not marked.
C14_NoNotification ==
  /\ last.op = "analyzeMessage"
  /\ HasDocumentKeywords(last.names)
  /\ last.ret = "notenabled"
  /\ servers[last.sid] = NoInst
  /\ sessions[last.sid].has /\ sessions[last.sid].res # NoRes
  /\ notified[last.sid] = 0
  /\ last.sid \notin sessionsWithDynamicTools

\* C15: when analyzeMessage matches a keyword on a session not yet marked and the
\* enable call adds nothing (returns false), the session is marked as analyzed all the
\* same.
C15_MarkedWhenNothingAdded ==
  [][ \A s \in Sessions :
        ( /\ last'.op = "analyzeMessage" /\ last'.sid = s
          /\ s \notin sessionsWithDynamicTools
          /\ HasDocumentKeywords(last'.names)
          /\ last'.ret = "notenabled" )
          => s \in sessionsWithDynamicTools'
    ]_vars

\* C15 state: the three document tools were enabled by a direct call; a message with a
\* keyword was analyzed after that, the enable call added nothing, and the session is
\* not marked.
C15_NotMarked ==
  /\ last.op = "analyzeMessage"
  /\ HasDocumentKeywords(last.names)
  /\ last.ret = "notenabled"
  /\ servers[last.sid] # NoInst
  /\ {documentToolIds[k] : k \in 1..Len(documentToolIds)} \subseteq sessionToolState[last.sid].enabled
  /\ last.sid \notin sessionsWithDynamicTools
  /\ notified[last.sid] = 0

\* C16: for a session already marked as analyzed, analyzeMessage returns at once for
\* every text, with or without a keyword: no enable call, nothing written, no change
\* of any table.
C16_MarkedReturnsAtOnce ==
  [][ \A s \in Sessions :
        (last'.op = "analyzeMessage" /\ last'.sid = s /\ s \in sessionsWithDynamicTools)
          => /\ last'.ret = "marked"
             /\ written' = NoWrite
             /\ UNCHANGED <<regVars, reqVars, servers, sessionToolState, inst, closing, allWait,
                             sessions, sessionsWithDynamicTools, notified>>
    ]_vars

\* C16 witness: a message with a keyword was analyzed for a marked session whose
\* instance has none of the document tools enabled and whose channel is bound: the
\* call returned at once.
C16_Witness ==
  /\ last.op = "analyzeMessage"
  /\ last.ret = "marked"
  /\ HasDocumentKeywords(last.names)
  /\ last.sid \in sessionsWithDynamicTools
  /\ servers[last.sid] # NoInst
  /\ inst[servers[last.sid]].st = "open"
  /\ sessionToolState[last.sid].enabled = {}
  /\ sessions[last.sid].has /\ sessions[last.sid].res # NoRes

\* the messages that contain a keyword when compared without regard to case
MatchingMessages == { <<"d","o","c">>, <<"D","o","C">>, <<"x","P","D","F","x">> }
Bundle == {"summarizeDocument", "countWordsAndCharacters", "detectDocumentFormat"}
ChannelBound(s) == sessions[s].has /\ sessions[s].res # NoRes

\* what C17 says of every analyzeMessage on an unmarked session but the notification:
\* the enable call is made iff the text matches, with the fixed bundle; without a match
\* nothing changes and nothing is written; with a newly enabled tool the session is
\* marked.
C17_Common(s) ==
  /\ (last'.ret # "nomatch") <=> (last'.names \in MatchingMessages)
  /\ last'.ret = "nomatch"
       => /\ written' = NoWrite
          /\ UNCHANGED <<regVars, reqVars, servers, sessionToolState, inst, closing, allWait,
                          sessions, sessionsWithDynamicTools, notified>>
  /\ (last'.ret # "nomatch" /\ servers[s] # NoInst)
       => /\ sessionToolState'[s].enabled = sessionToolState[s].enabled \cup (Bundle \cap DynamicTools)
          /\ inst'[servers[s]].tools
               = inst[servers[s]].tools \cup (sessionToolState'[s].enabled \ sessionToolState[s].enabled)
  /\ (last'.ret \in {"enabled", "enabledThrew"})
       <=> /\ last'.names \in MatchingMessages
           /\ servers[s] # NoInst
           /\ (Bundle \cap DynamicTools) \ sessionToolState[s].enabled # {}
  /\ last'.ret \in {"enabled", "enabledThrew"} => s \in sessionsWithDynamicTools'

C18_CreateBeforeAnalyze ==
  [][ \A s \in Sessions :
        ( /\ last'.op = "handlePost" /\ last'.sid = s
          /\ servers[s] = NoInst
          /\ s \notin sessionsWithDynamicTools
          /\ last'.names \in MatchingMessages )
          => /\ last'.ret \in {"enabled", "enabledThrew"}
             /\ Bundle \subseteq sessionToolState'[s].enabled
             /\ Bundle \subseteq inst'[last'.inst].tools
    ]_vars

\* C18 state: the first send request of a session, with a keyword in its message, has
\* reached the connect: the enable call returned false before the instance was made,
\* the new instance has no document tool and the session is not marked.
C18_AnalyzedTooEarly ==
  /\ last.op = "handlePost"
  /\ last.names \in MatchingMessages
  /\ last.ret = "notenabled"
  /\ inst[last.inst].st = "connecting"
  /\ inst[last.inst].tools = StaticTools
  /\ sessionToolState[last.sid] = NoState
  /\ last.sid \notin sessionsWithDynamicTools
  /\ \A i \in InstIds : i # last.inst => inst[i].st = "unused"

\* C19: sendComplete on a session with a bound channel writes the terminal event and
\* then ends the connection and deletes the session in every case, also when the write
\* of the event fails: when the call returns the connection is ended and the record
\* is gone.
C19_CompleteAlwaysTerminates ==
  [][ \A s \in Sessions :
        (last'.op = "sendComplete" /\ last'.sid = s /\ ChannelBound(s))
          => /\ written'.ended
             /\ ~sessions'[s].has
    ]_vars

\* C19 state: sendComplete has returned false after its write threw; the connection was
\* not ended and the session record, with its channel, is still in the store.
C19_FailedWriteKeepsSession ==
  /\ last.op = "sendComplete"
  /\ last.ret = "false"
  /\ ChannelBound(last.sid)
  /\ ~written.ended
  /\ written.events = <<>>

SendOps == {"sendProgress", "sendNotification", "sendComplete"}

\* C20: after sendComplete on a session with a bound channel the session record is
\* absent, and while it is absent every sendProgress, sendNotification and sendComplete
\* for the session returns false and writes nothing; the record comes back only by
\* getOrCreateSession (a new listen connection).
C20_CompletionEndsSession ==
  [][ \A s \in Sessions :
        /\ (last'.op = "sendComplete" /\ last'.sid = s /\ ChannelBound(s))
             => ~sessions'[s].has
        /\ (last'.op \in SendOps /\ last'.sid = s /\ ~sessions[s].has)
             => /\ last'.ret = "false"
                /\ written' = NoWrite
                /\ ~sessions'[s].has
        /\ (~sessions[s].has /\ sessions'[s].has)
             => (last'.op = "getOrCreateSession" /\ last'.sid = s)
    ]_vars

\* C20 state: sendComplete has returned false on a session that had received progress;
\* the record is still in the store with its channel and its last progress.
C20_SessionStillThere ==
  /\ last.op = "sendComplete"
  /\ last.ret = "false"
  /\ sessions[last.sid].has
  /\ sessions[last.sid].res # NoRes
  /\ sessions[last.sid].lastUpdate # "none"

\* the events of one log are in the order of their calls
Ordered(log) == \A j, k \in 1..Len(log) : j < k => log[j].call < log[k].call

\* the event a send operation writes
KindOf(op) ==
  CASE op = "sendProgress" -> "progress"
    [] op = "sendNotification" -> "notification"
    [] op = "sendComplete" -> "complete"

\* C21: the events of one session are written one per call, within the call, and reach
\* the receiving side in the order of the calls: a send call that writes puts exactly
\* its own event behind the session's earlier events, a call that does not write and a
\* call for another session leave the session's events as they are, and the events of a
\* session are never out of call order.
C21_EventsInCallOrder ==
  [][ \A s \in Sessions :
        /\ Ordered(wire'.log[s])
        /\ (last'.op \in SendOps /\ last'.sid = s /\ wire.calls[s] < MaxWire)
             => /\ wire'.calls[s] = wire.calls[s] + 1
                /\ last'.ret = "true" => written'.events = <<KindOf(last'.op)>>
                /\ Len(written'.events) <= 1
                /\ wire'.log[s] = IF written'.events # <<>>
                                  THEN Append(wire.log[s], [kind |-> written'.events[1],
                                                            call |-> wire'.calls[s]])
                                  ELSE wire.log[s]
        /\ ~(last'.op \in SendOps /\ last'.sid = s)
             => /\ wire'.log[s] = wire.log[s]
                /\ wire'.calls[s] = wire.calls[s]
    ]_vars

\* C21 state: the receiving side has seen two events of different kinds of one session,
\* written by its first and its second call, and an event of the other session.
C21_Witness ==
  /\ Len(wire.log["s1"]) = 2
  /\ wire.log["s1"][1].kind # wire.log["s1"][2].kind
  /\ wire.log["s1"][1].call = 1
  /\ wire.log["s1"][2].call = 2
  /\ Len(wire.log["s2"]) >= 1

\* C22: sendProgress, sendNotification and sendComplete for a session id without a
\* session record, or whose record has no channel, return false and do nothing else:
\* nothing is written, and the session records, the activation markers, the instances
\* and the enabled sets are what they were.
C22_NoChannelNoEffect ==
  [][ \A s \in Sessions :
        (last'.op \in SendOps /\ last'.sid = s /\ ~ChannelBound(s))
          => /\ last'.ret = "false"
             /\ written' = NoWrite
             /\ UNCHANGED <<sessions, sessionsWithDynamicTools, notified,
                            servers, sessionToolState, inst, closing>>
    ]_vars

\* C22 state: sendProgress has returned false for a session that has a record without
\* a channel and an activation marker; the record has no progress snapshot.
C22_Witness ==
  /\ last.op = "sendProgress"
  /\ last.ret = "false"
  /\ sessions[last.sid].has
  /\ sessions[last.sid].res = NoRes
  /\ sessions[last.sid].lastUpdate = "none"
  /\ last.sid \in sessionsWithDynamicTools

\* C23 as stated: sendProgress on an existing session record stores the snapshot as the
\* record's last progress, with or without a channel, and no other operation on the
\* record changes it.
C23_Original ==
  [][ \A s \in Sessions :
        /\ (last'.op = "sendProgress" /\ last'.sid = s /\ sessions[s].has)
             => sessions'[s].lastUpdate = last'.names[1]
        /\ (last'.op # "sendProgress" /\ sessions[s].has /\ sessions'[s].has)
             => sessions'[s].lastUpdate = sessions[s].lastUpdate
    ]_vars

\* C23: sendProgress on a session record with a channel stores the snapshot as the
\* record's last progress, also when the write of the event throws, and changes nothing
\* else in the record; on a record without a channel it leaves the record, and so the
\* earlier snapshot, as it is; no other operation on the record changes the snapshot.
C23_LastProgress ==
  [][ \A s \in Sessions :
        /\ (last'.op = "sendProgress" /\ last'.sid = s /\ ChannelBound(s))
             => sessions'[s] = [sessions[s] EXCEPT !.lastUpdate = last'.names[1]]
        /\ (last'.op = "sendProgress" /\ last'.sid = s /\ ~ChannelBound(s))
             => sessions'[s] = sessions[s]
        /\ (last'.op # "sendProgress" /\ sessions[s].has /\ sessions'[s].has)
             => sessions'[s].lastUpdate = sessions[s].lastUpdate
    ]_vars

\* C23 state: sendProgress has returned false because the write threw, and the record
\* holds the snapshot of this call.
C23_Witness ==
  /\ last.op = "sendProgress"
  /\ last.ret = "false"
  /\ ChannelBound(last.sid)
  /\ last.names = <<"done">>
  /\ sessions[last.sid].lastUpdate = "done"

\* C24: when the write to a session's channel, or the end of the connection, throws,
\* sendProgress, sendNotification and sendComplete return false: every send call returns
\* true or false to its caller, and analyzeMessage returns normally when the write of
\* its notification throws.
C24_FailureReturnsFalse ==
  [][ /\ last'.op \in SendOps => last'.ret \in {"true", "false"}
      /\ \A s \in Sessions :
           /\ \A th \in Throws \ {"no"} : SendComplete(s, th) => last'.ret = "false"
           /\ SendNotification(s, TRUE) => last'.ret = "false"
           /\ \A g \in AllStages \cup Stages : SendProgress(s, g, TRUE) => last'.ret = "false"
           /\ \A m \in Messages : AnalyzeMessage(s, m, TRUE) => last'.ret = "enabledThrew"
    ]_vars

\* C24 state: sendComplete has returned false after res.end() threw: the terminal event
\* was written, the connection is not ended and the record is still in the store.
C24_Witness ==
  /\ last.op = "sendComplete"
  /\ last.ret = "false"
  /\ written.events = <<"complete">>
  /\ ~written.ended
  /\ ChannelBound(last.sid)

\* the arguments of the getOrCreateSession call recorded in op
ArgRes(op) == op.names[1]
ArgUserId(op) == op.names[2]
ArgUsername(op) == op.names[3]
ArgUserRole(op) == op.names[4]
ArgNow(op) == op.names[5]

\* C25: after getOrCreateSession on an existing record, every value the call supplied
\* (channel handle, userId, username, role) is stored in the record, whatever the
\* combination of supplied and omitted arguments, also when no channel handle is passed.
C25_MergeStoresSupplied ==
  [][ \A s \in Sessions :
        (last'.op = "getOrCreateSession" /\ last'.sid = s /\ sessions[s].has)
          => /\ ArgRes(last') # NoRes => sessions'[s].res = ArgRes(last')
             /\ ArgUserId(last') # Undefined => sessions'[s].userId = ArgUserId(last')
             /\ ArgUsername(last') # Undefined => sessions'[s].username = ArgUsername(last')
             /\ ArgUserRole(last') # Undefined => sessions'[s].userRole = ArgUserRole(last')
    ]_vars

\* C25 state: getOrCreateSession was called with a userId and without a channel handle
\* on an existing record, and the record does not hold the userId.
C25_IdentityDropped ==
  /\ last.op = "getOrCreateSession"
  /\ ArgRes(last) = NoRes
  /\ ArgUserId(last) = "u1"
  /\ sessions[last.sid].has
  /\ sessions[last.sid].userId # "u1"

\* C26: getOrCreateSession on an existing record keeps every field for which the call
\* supplies no value (channel handle, userId, username, role), and in every case keeps
\* the record, its createdAt and its last progress.
C26_MergeKeepsFields ==
  [][ \A s \in Sessions :
        (last'.op = "getOrCreateSession" /\ last'.sid = s /\ sessions[s].has)
          => /\ sessions'[s].has
             /\ sessions'[s].createdAt = sessions[s].createdAt
             /\ sessions'[s].lastUpdate = sessions[s].lastUpdate
             /\ ArgRes(last') = NoRes => sessions'[s].res = sessions[s].res
             /\ ArgUserId(last') = Undefined => sessions'[s].userId = sessions[s].userId
             /\ ArgUsername(last') = Undefined => sessions'[s].username = sessions[s].username
             /\ ArgUserRole(last') = Undefined => sessions'[s].userRole = sessions[s].userRole
    ]_vars

\* C26 state: getOrCreateSession has rebound the channel of an existing record at a later
\* time without identity; the record has its createdAt, its last progress and its identity.
C26_Witness ==
  /\ last.op = "getOrCreateSession"
  /\ ArgRes(last) = "res2"
  /\ ArgNow(last) = "t1"
  /\ ArgUserId(last) = Undefined
  /\ ArgUsername(last) = Undefined
  /\ sessions[last.sid].res = "res2"
  /\ sessions[last.sid].createdAt = "t0"
  /\ sessions[last.sid].lastUpdate = "done"
  /\ sessions[last.sid].userId = "u2"
  /\ sessions[last.sid].username = "alice"

\* C27: a GET or DELETE request without session id header is answered with the error
\* envelope of InvalidRequest (-32600) and creates nothing: the instances, the enabled
\* sets, the session records, the markers and the requests in flight are what they
\* were.  A POST request without the header goes on with a new session id: an id
\* nothing knew, for which an instance is being created and the request waits.
C27_MissingSessionId ==
  [][ (last'.op = "handleRequest" /\ last'.names[2] = NoHeader)
        => IF last'.names[1] \in {"GET", "DELETE"}
           THEN /\ response'.sent /\ response'.envelope
                /\ response'.code = -32600
                /\ UNCHANGED <<servers, sessionToolState, inst, closing, sessions,
                               sessionsWithDynamicTools, requests>>
           ELSE /\ last'.sid \in FreshIds
                /\ inst[last'.inst].st = "unused"
                /\ inst'[last'.inst].st = "connecting"
                /\ inst'[last'.inst].sid = last'.sid
                /\ \E r \in requests' \ requests : r.sid = last'.sid /\ r.method = "POST"
                /\ response' = response
    ]_vars

\* C27 state: a DELETE request without session id has been rejected with InvalidRequest
\* while session s1 has its instance.
C27_Witness ==
  /\ last.op = "handleRequest"
  /\ last.ret = "rejected"
  /\ last.names = <<"DELETE", NoHeader>>
  /\ response = [sent |-> TRUE, envelope |-> TRUE, status |-> 400, code |-> -32600]
  /\ servers["s1"] # NoInst
  /\ requests = {}

\* what session s is made of after the step
SnapshotAfter(s) ==
  [inst |-> servers'[s], state |-> sessionToolState'[s], record |-> sessions'[s],
   marked |-> s \in sessionsWithDynamicTools']

\* the step ends the request r with a failure
Fails(r) ==
  /\ r \in requests
  /\ r \notin requests'
  /\ last'.op = "handleRequestReturn"
  /\ last'.ret = "failed"

\* the protocol code of the error the transport threw
CodeOf(error) == IF error = "Error" THEN -32603 ELSE JsonRpcErrorCode[error]

\* C28 as stated: when a request fails, the caller receives the error envelope with the
\* code of the error (InternalError for an exception that is no protocol error), and the
\* session's instance, enabled set, record and marker are what they were before the
\* failing request.
C28_Original ==
  [][ \A r \in requests :
        Fails(r) => /\ response'.sent /\ response'.envelope
                    /\ response'.code = CodeOf(last'.names[2])
                    /\ SnapshotAfter(r.sid) = r.before
    ]_vars

\* C28: when the transport throws while it handles a request and the response headers
\* are not yet sent, the caller receives the error envelope with the code of the error
\* (InternalError for an exception that is no protocol error) and the HTTP status of
\* that code; when the headers are already sent no envelope is written.  Handling the
\* failure changes nothing of the session: its instance, enabled set, record and marker
\* are what the request's earlier steps (creation of the instance, analysis of the
\* message, binding of the listen channel) had made them, and nothing is closed.
C28_FailedRequest ==
  [][ \A r \in requests :
        Fails(r) => /\ last'.names[3] = "unsent"
                         => /\ response'.sent /\ response'.envelope
                            /\ response'.code = CodeOf(last'.names[2])
                            /\ response'.status = GetHttpStatusForErrorCode(response'.code)
                    /\ last'.names[3] = "sent" => ~response'.envelope
                    /\ SnapshotAfter(r.sid) = Snapshot(r.sid)
                    /\ UNCHANGED <<servers, sessionToolState, inst, closing, sessions,
                                   sessionsWithDynamicTools>>
    ]_vars

\* C28 state: a POST request of a session with an instance and enabled tools has failed
\* with a protocol error before the headers were sent; the caller has the envelope with
\* that error's code (ToolNotFound), and the session has its instance and its tools.
C28_Witness ==
  /\ last.op = "handleRequestReturn"
  /\ last.ret = "failed"
  /\ last.names = <<"POST", "ToolNotFound", "unsent", NoCall>>
  /\ response = [sent |-> TRUE, envelope |-> TRUE, status |-> 404, code |-> -32003]
  /\ servers[last.sid] = last.inst
  /\ sessionToolState[last.sid].enabled # {}
  /\ last.sid \in sessionsWithDynamicTools

CloseOps == {"closeServer", "closeServerReturn", "transportClose", "closeAllServers"}

\* C29: the enabled set of a session is empty when an instance is constructed for the
\* session, it loses a name only in a step of closing the session (closeServer, its
\* resumption, the close of the transport), and every name in it is a registered
\* dynamic tool.
C29_EnabledSetMonotone ==
  [][ \A s \in Sessions :
        /\ (last'.op = "getOrCreateServer" /\ last'.ret = "await" /\ last'.sid = s)
             => sessionToolState'[s].enabled = {}
        /\ ~(sessionToolState[s].enabled \subseteq sessionToolState'[s].enabled)
             => (last'.op \in CloseOps /\ last'.sid \in {s, "none"})
        /\ sessionToolState'[s].enabled \subseteq DynamicTools
        /\ ~sessionToolState'[s].has => sessionToolState'[s].enabled = {}
    ]_vars

\* C29 state: a second enable call for a session with an enabled name has returned
\* false (it named nothing new that can be enabled) and the set still holds the name.
C29_Witness ==
  /\ last.op = "enable"
  /\ last.ret = "false"
  /\ last.inst # NoInst
  /\ sessionToolState[last.sid].enabled = {"summarizeDocument"}
\* C30: closeAllServers calls closeServer for every session tracked at the call before
\* it waits for any of them (each has its shutdown started and a pending close when the
\* call suspends); when it returns, with no getOrCreateServer call in progress, none of
\* those sessions has an instance or enabled-dynamic state, also when some shutdowns
\* threw; and a call that has started always returns.
C30_CloseAllServers ==
  /\ [][/\ last'.op = "closeAllServers" =>
            /\ allWait'.active
            /\ allWait'.tracked = {s \in Sessions : servers[s] # NoInst}
            /\ \A s \in allWait'.tracked :
                 /\ inst'[servers[s]].shutdowns > 0
                 /\ \E c \in closing' : c.sid = s /\ c.inst = servers[s] /\ c \in allWait'.kids
        /\ (last'.op = "closeAllServersReturn" /\ \A i \in InstIds : inst[i].st # "connecting") =>
            \A s \in allWait.tracked :
              servers'[s] = NoInst /\ sessionToolState'[s] = NoState]_vars
  /\ (allWait.active ~> ~allWait.active)

\* closeAllServers has returned after closing both sessions, one of which had dynamic
\* tools enabled and one of which had a shutdown that threw (its instance is still open)
C30_Witness ==
  /\ last.op = "closeAllServersReturn"
  /\ last.names = <<"s1", "s2">>
  /\ \A s \in Sessions : servers[s] = NoInst /\ sessionToolState[s] = NoState
  /\ \E i \in InstIds : inst[i].st = "open" /\ inst[i].shutdowns > 0
  /\ \E i \in InstIds : inst[i].st = "closed"

\* a DELETE request for s has just been handled: the transport returned and
\* handleRequest called closeServer(s)
Terminated(s) ==
  /\ last.op = "handleRequestReturn"
  /\ last.sid = s
  /\ last.ret = "ok"
  /\ last.names[1] = "DELETE"

\* C31: after a DELETE request for s has been handled, eventually s has no instance,
\* no enabled-dynamic state and no session record.
C31_TerminateReleasesAndForgets ==
  \A s \in Sessions :
    Terminated(s) ~> (servers[s] = NoInst /\ sessionToolState[s] = NoState /\ ~sessions[s].has)

\* the instance half of the statement of C31
C31_TerminateReleases ==
  \A s \in Sessions :
    Terminated(s) ~> (servers[s] = NoInst /\ sessionToolState[s] = NoState)

\* a DELETE request was handled, nothing is pending, the instance is released and the
\* session record is still stored with its channel
C31_RecordNeverForgotten ==
  /\ Terminated("s1")
  /\ closing = {}
  /\ requests = {}
  /\ servers["s1"] = NoInst
  /\ sessions["s1"].has
  /\ sessions["s1"].res # NoRes

\* the step ends a request of the given method for s without error
Handled(s, method) ==
  /\ last'.op = "handleRequestReturn"
  /\ last'.sid = s
  /\ last'.ret = "ok"
  /\ last'.names[1] = method

\* C32: when an accepted request for s has been handled, s has a session record; a
\* record that a request creates carries the identity supplied with the request; and a
\* channel is attached to a record only by a listen (GET) request.
C32_RecordOnFirstRequest ==
  [][\A s \in Sessions :
       /\ (\E m \in Methods \ {"DELETE"} : Handled(s, m)) => sessions'[s].has
       /\ (~sessions[s].has /\ sessions'[s].has) =>
            /\ sessions'[s].userId = last'.names[3]
            /\ sessions'[s].username = last'.names[4]
       /\ (sessions'[s].res # sessions[s].res /\ sessions'[s].res # NoRes) =>
            /\ last'.op = "handleRequestConnected"
            /\ last'.names[1] = "GET"
    ]_vars

\* the parts of the statement of C32 about the listen request: it creates the record
\* if there is none, with the identity of the request and the channel; no other step
\* of a request creates a record or attaches a channel.
C32_RecordOnListen ==
  [][\A s \in Sessions :
       /\ (last'.op = "handleRequestConnected" /\ last'.sid = s /\ last'.names[1] = "GET")
            => /\ sessions'[s].has
               /\ sessions'[s].res = last'.names[2]
               /\ ~sessions[s].has => /\ sessions'[s].userId = last'.names[3]
                                       /\ sessions'[s].username = last'.names[4]
       /\ sessions'[s] # sessions[s] =>
            /\ last'.op = "handleRequestConnected"
            /\ last'.names[1] = "GET"
    ]_vars

\* a send (POST) request for s1 has been handled without error and s1 has no record
C32_SentWithoutRecord ==
  /\ last.op = "handleRequestReturn"
  /\ last.sid = "s1"
  /\ last.ret = "ok"
  /\ last.names[1] = "POST"
  /\ servers["s1"] # NoInst
  /\ ~sessions["s1"].has

\* C33: an event of a send operation for s is written to one response object, the one
\* that s's record holds at the call, which no other session's record holds and which
\* never was another session's; nothing is written for any other session in that step;
\* and binding a channel to a record replaces the handle the record held.
C33_PointToPoint ==
  [][\A s \in Sessions :
       /\ Len(wire'.to[s]) <= Len(wire.to[s]) + 1
       /\ Len(wire'.to[s]) = Len(wire.to[s]) + 1 =>
            /\ last'.op \in SendOps /\ last'.sid = s
            /\ wire'.to[s] = Append(wire.to[s], sessions[s].res)
            /\ sessions[s].res # NoRes
            /\ \A t \in Sessions \ {s} :
                 /\ sessions[t].res # sessions[s].res
                 /\ sessions[s].res \notin ChannelsOf(t)
                 /\ wire'.to[t] = wire.to[t]
       /\ (last'.op = "getOrCreateSession" /\ last'.sid = s /\ last'.names[1] # NoRes)
            => sessions'[s].res = last'.names[1]
    ]_vars

\* s1 has received an event on its first channel and, after it reconnected, one on its
\* second channel, and s2 has received an event on its own channel
C33_Witness ==
  /\ wire.to["s1"] = <<"res1", "res3">>
  /\ Len(wire.to["s2"]) >= 1
  /\ wire.to["s2"][1] = "res2"
  /\ sessions["s1"].res = "res3"

\* the content of the last message of a generate envelope; none for another shape
MessageContent(body) ==
  IF /\ body.object
     /\ body.method = "generate"
     /\ body.messages.kind = "array"
     /\ Len(body.messages.items) > 0
     /\ ~body.messages.items[Len(body.messages.items)].nullish
  THEN body.messages.items[Len(body.messages.items)].content
  ELSE NullContent

\* the text the extraction is said to return for a body
RECURSIVE TextsOf(_)
TextsOf(parts) ==
  IF parts = <<>> THEN <<>>
  ELSE IF parts[1].type = "text" /\ parts[1].isString
  THEN <<parts[1].text>> \o TextsOf(Tail(parts))
  ELSE TextsOf(Tail(parts))

ExpectedText(body) ==
  LET c == MessageContent(body)
  IN CASE c.kind = "string" -> c.text
       [] c.kind = "array" -> Join(TextsOf(c.parts))
       [] c.kind = "object" /\ c.type = "text" -> c.text
       [] OTHER -> <<>>

\* the request with the body named n is handled as the extraction is said to work
ExtractedAsStated(header, n, th) ==
  HandlePostBody(header, n, th) =>
    /\ ExtractMessageContent(Bodies[n]) = Returned(ExpectedText(Bodies[n]))
       \/ /\ Bodies[n].messages.items # <<>>
          /\ MessageContent(Bodies[n]).textKind = "number"
          /\ ExtractMessageContent(Bodies[n]).text = ExpectedText(Bodies[n])
    /\ ExpectedText(Bodies[n]) = <<>> =>
         /\ last'.op = "handleRequest"
         /\ last'.ret = "none"
         /\ UNCHANGED <<sessionToolState, sessionsWithDynamicTools, notified, sessions>>

\* C34: for every body, the extraction returns the string content, or the texts of the
\* text parts joined by single spaces, or the text of a text object, and the empty
\* string for every other shape; with the empty string the request goes on without
\* running the activation policy and without changing the enabled sets, the markers,
\* the notifications or the records.
C34_Extraction ==
  [][\A header \in {"s1", NoHeader}, n \in BodyNames, th \in BOOLEAN :
       ExtractedAsStated(header, n, th)]_vars

\* the statement of C34 for the bodies that hold no null where an object is read
C34_ExtractionNoNull ==
  [][\A header \in {"s1", NoHeader}, n \in BodyNames \ {"nullMessage", "nullPart"}, th \in BOOLEAN :
       ExtractedAsStated(header, n, th)]_vars

\* a send request whose last message is null (or whose content holds a null part) was
\* answered with the InternalError envelope; no instance was created for it
C34_NullThrows ==
  /\ last.op = "handleRequest"
  /\ last.ret = "failed"
  /\ last.sid = "s1"
  /\ response.envelope
  /\ response.code = JsonRpcErrorCode.InternalError
  /\ servers["s1"] = NoInst
  /\ "s1" \notin sessionsWithDynamicTools
  /\ ExtractMessageContent(Bodies.nullMessage).threw

\* the step ends the request r, whose body called a name that is not in the registry
UnknownCallReturns(r) ==
  /\ r \in requests
  /\ r \notin requests'
  /\ last'.op = "handleRequestReturn"
  /\ r.call # NoCall
  /\ r.call \notin RegNames

\* at the end of the step the session of r has no record, enabled-dynamic state, enabled
\* name or activation marker that it had not when the request came in
NothingCreated(r) ==
  /\ sessions'[r.sid].has => sessions'[r.sid] = r.before.record
  /\ sessionToolState'[r.sid].has => r.before.state.has
  /\ sessionToolState'[r.sid].enabled \subseteq r.before.state.enabled
  /\ r.sid \in sessionsWithDynamicTools' => r.before.marked

\* C35: when a request that calls a name not in the registry returns, the caller has
\* received the error envelope with code -32003 (ToolNotFound), and the session has no
\* record, enabled-dynamic state or activation marker that it had not before the request.
C35_UnknownCapability ==
  [][\A r \in requests :
       UnknownCallReturns(r) =>
         /\ response'.sent /\ response'.envelope
         /\ response'.code = -32003
         /\ NothingCreated(r)
    ]_vars

\* the second half of the statement of C35
C35_NoSessionState ==
  [][\A r \in requests :
       UnknownCallReturns(r) =>
         /\ NothingCreated(r)
    ]_vars

\* a request that called unknownTool has returned: the transport answered it, or the
\* InternalError envelope was sent
C35_AnsweredOtherwise ==
  /\ last.op = "handleRequestReturn"
  /\ last.names[4] = "unknownTool"
  /\ response.sent
  /\ response.code # JsonRpcErrorCode.ToolNotFound
  /\ response.envelope => response.code = JsonRpcErrorCode.InternalError

\* the names the step enables for session s
NewlyEnabled(s) == sessionToolState'[s].enabled \ sessionToolState[s].enabled

\* C36: only registerTool changes the registry; it sets the entry of its name to the
\* handler and flag passed, whether or not the name had an entry, and leaves every
\* other entry as it is, so no entry is ever removed; an instance constructed later gets
\* exactly the tools whose last registration is static, with the handler registered
\* last; and a later enableDynamicToolsForSession or analyzeMessage enables a name only
\* if its last registration is dynamic, with the handler registered last.
C36_RegistryOverwriteOnly ==
  [][/\ last'.op # "registerTool" => UNCHANGED regVars
     /\ last'.op = "registerTool" =>
          /\ registeredTools'[last'.names[1]] = last'.names[3]
          /\ registeredHandlers'[last'.names[1]] = last'.names[2]
          /\ \A m \in RegNames \ {last'.names[1]} :
               /\ registeredTools'[m] = registeredTools[m]
               /\ registeredHandlers'[m] = registeredHandlers[m]
          /\ \A m \in RegNames : registeredTools[m] # "absent" => registeredTools'[m] # "absent"
     /\ (last'.op = "getOrCreateServer" /\ last'.ret = "await") =>
          \A n \in RegNames :
            /\ n \in inst'[last'.inst].tools <=> registeredTools[n] = "static"
            /\ n \in inst'[last'.inst].tools => inst'[last'.inst].handlers[n] = registeredHandlers[n]
     /\ \A s \in Sessions : \A n \in NewlyEnabled(s) :
          /\ last'.op \in {"enable", "analyzeMessage"}
          /\ registeredTools[n] = "dynamic"
          /\ n \in inst'[servers[s]].tools
          /\ inst'[servers[s]].handlers[n] = registeredHandlers[n]
    ]_vars

\* summarizeDocument was registered again with another handler, and an enable call
\* after that has put the new handler on the instance of s1
C36_Witness ==
  /\ last.op = "enable"
  /\ last.ret = "true"
  /\ registeredTools["summarizeDocument"] = "dynamic"
  /\ registeredHandlers["summarizeDocument"] = "h2"
  /\ servers["s1"] # NoInst
  /\ inst[servers["s1"]].handlers["summarizeDocument"] = "h2"
  /\ "summarizeDocument" \in sessionToolState["s1"].enabled

\* C37: when a closeServer(s) call that shut down instance A resumes while the tables
\* hold another instance B for s, its cleanup leaves B's entry and B's enabled-dynamic
\* state in the tables.
C37_CloseOnlyOwnInstance ==
  [][\A s \in Sessions :
       (/\ last'.op = "closeServerReturn"
        /\ last'.sid = s
        /\ servers[s] # NoInst
        /\ servers[s] # last'.inst)
         => /\ servers'[s] = servers[s]
            /\ sessionToolState'[s] = sessionToolState[s]
    ]_vars

\* the closeServer call that shut down the first instance of s1 has returned; the
\* instance created for s1 in the meantime is open, with its transport session, and is
\* no longer in the tables
C37_LiveInstanceUntracked ==
  /\ last.op = "closeServerReturn"
  /\ last.sid = "s1"
  /\ servers["s1"] = NoInst
  /\ \E b \in InstIds :
       /\ b # last.inst
       /\ inst[b].sid = "s1"
       /\ inst[b].st = "open"
       /\ inst[b].shutdowns = 0
       /\ inst[last.inst].st = "closed"

\* the document-tool bundle of the activation policy
DocumentBundle == {documentToolIds[k] : k \in 1..Len(documentToolIds)}

\* C38: in every state, a session that is marked as analyzed and has a tracked instance
\* has the document-tool bundle enabled on that instance.
C38_MarkedHasBundle ==
  \A s \in Sessions :
    (s \in sessionsWithDynamicTools /\ servers[s] # NoInst)
      => /\ DocumentBundle \subseteq sessionToolState[s].enabled
         /\ DocumentBundle \subseteq inst[servers[s]].tools

\* s1 is marked, its instance is a new one without any of the document tools, and
\* analyzeMessage has just returned at once for a message with a keyword
C38_MarkedWithoutTools ==
  /\ last.op = "analyzeMessage"
  /\ last.sid = "s1"
  /\ last.ret = "marked"
  /\ HasDocumentKeywords(last.names)
  /\ "s1" \in sessionsWithDynamicTools
  /\ servers["s1"] # NoInst
  /\ inst[servers["s1"]].st = "open"
  /\ inst[servers["s1"]].tools \cap DocumentBundle = {}
  /\ ~sessionToolState["s1"].has

\* the dynamic tools registered on instance i
DynamicOn(i) == inst[i].tools \cap DynamicTools

\* C39: in every state, the dynamic tools registered on the tracked instance of a
\* session are exactly the session's recorded enabled set, and only sessions with a
\* tracked instance have enabled-dynamic state.
C39_EnabledMatchesInstance ==
  \A s \in Sessions :
    /\ servers[s] # NoInst => DynamicOn(servers[s]) = sessionToolState[s].enabled
    /\ sessionToolState[s].has => servers[s] # NoInst

\* the second half of the statement of C39
C39_StateOnlyIfTracked ==
  \A s \in Sessions : sessionToolState[s].has => servers[s] # NoInst

\* the statement of C39 for the sessions for which only one instance was ever built
C39_SingleInstance ==
  \A s \in Sessions :
    Cardinality({i \in InstIds : inst[i].sid = s}) <= 1 =>
      /\ servers[s] # NoInst => DynamicOn(servers[s]) = sessionToolState[s].enabled
      /\ sessionToolState[s].has => servers[s] # NoInst

\* the tracked instance of s1 is open and has no dynamic tool, while the enabled set
\* recorded for s1 holds summarizeDocument
C39_EnabledNotOnInstance ==
  /\ servers["s1"] # NoInst
  /\ inst[servers["s1"]].st = "open"
  /\ DynamicOn(servers["s1"]) = {}
  /\ sessionToolState["s1"].has
  /\ "summarizeDocument" \in sessionToolState["s1"].enabled

\* the document with the id
DocumentById(id) == DOCUMENTS[CHOOSE k \in 1..Len(DOCUMENTS) : DOCUMENTS[k].id = id]

DocumentOps == {"getDocument", "getAccessibleDocuments", "getDocumentsByTag"}

\* C40: every document a document operation returns for session s is public or owned
\* by the userId that s's session record holds at the call; a session id without a
\* record, or with a record without identity, gets public documents only; and
\* getAccessibleDocuments returns every document that is public or owned by that userId.
C40_AccessFollowsRecord ==
  [][\A s \in Sessions :
       (last'.op \in DocumentOps /\ last'.sid = s) =>
         /\ \A k \in 1..Len(last'.names) :
              \/ DocumentById(last'.names[k]).isPublic
              \/ /\ sessions[s].has
                 /\ sessions[s].userId # Undefined
                 /\ DocumentById(last'.names[k]).ownerId = sessions[s].userId
         /\ (~sessions[s].has \/ sessions[s].userId = Undefined) =>
              \A k \in 1..Len(last'.names) : DocumentById(last'.names[k]).isPublic
         /\ last'.op = "getAccessibleDocuments" =>
              \A j \in 1..Len(DOCUMENTS) :
                (DOCUMENTS[j].isPublic \/ (sessions[s].has /\ DOCUMENTS[j].ownerId = sessions[s].userId))
                  => \E k \in 1..Len(last'.names) : last'.names[k] = DOCUMENTS[j].id
         /\ UNCHANGED sessions
    ]_vars

\* s1, whose record holds user 1, has been given the private document of user 1, while
\* the record of s2 holds user 2
C40_Witness ==
  /\ last.op = "getAccessibleDocuments"
  /\ last.sid = "s1"
  /\ last.names = <<"doc1", "doc2", "doc3">>
  /\ sessions["s1"].userId = "1"
  /\ sessions["s2"].has
  /\ sessions["s2"].userId = "2"

====
